---- MODULE Spec2Model ----
(***************************************************************************)
(* Model of the document structuring and chunking pipeline of              *)
(* medibook_rag1: script/chunker_RAG_PRODUCTION.py, script/chunking_       *)
(* builder.py and script/structure_builder.py.                             *)
(*                                                                         *)
(* Text representation.  A text is the list of its lines (what             *)
(* text.split("\n") returns).  A line is a record of the features the      *)
(* code's regular expressions and counters read from it:                   *)
(*   len    number of characters                                           *)
(*   upper  the line starts with an upper-case letter A-Z                  *)
(*   term   the line ends with one of . ! ?                                *)
(*   abbr   the final "." belongs to a protected abbreviation (et al. ...) *)
(*   noise  the stripped line matches a header/footer or front-matter      *)
(*          pattern of remove_noise                                        *)
(*   ref    the match of Table\s+\d+\.?\d* in the line, "" when none       *)
(*   pipes, tabs, digits   counts of "|", "\t" and digit characters        *)
(*   section  the stripped line matches one of SECTION_MARKERS             *)
(* A string built by the chunker is a sequence of items [u, a, b]:         *)
(* characters a..b-1 of line u of the text being chunked when u >= 1, one  *)
(* space when u = 0 and one newline when u = -1.                           *)
(***************************************************************************)
EXTENDS Integers, Sequences, FiniteSets, TLC

VARIABLES
    text,      \* chunk_text: the argument, a list of lines
    pc,        \* chunk_text: position ("start","packed","split","done")
    clean,     \* chunk_text: the text after remove_noise
    chunks,    \* chunk_text: the list the current phase produced
    flushes,   \* chunk_text: one record per flush of the sentence packing
    tlines,    \* detect_tables: the argument, a list of lines
    tpc,       \* detect_tables: "start", "once" (ran on the text), "twice"
    first,     \* detect_tables: (tables, clean_text) of the text
    second,    \* detect_tables: (tables, clean_text) of first's clean_text
    digest,    \* generate_book_id: sha256 digest of the name, 32 bytes
    ids,       \* generate_book_id: results of chunker_RAG_PRODUCTION's
    builderIds, \* generate_book_id: results of chunking_builder's
    structure, \* chunk_structure_file: the structure document read
    fpc,       \* chunk_structure_file: "open", "loop", "done"
    fitem,     \* chunk_structure_file: number of items the loop has taken
    all_chunks, \* chunk_structure_file: all_chunks
    gidx,      \* chunk_structure_file: gidx
    written,   \* chunk_structure_file: the documents written to CHUNKS_DIR
    pages_data, \* build_structure_with_chapters: the extracted pages document
    chapter_info, \* build_structure_with_chapters: the chapter metadata
    spc,       \* build_structure_with_chapters: "loaded", "built"
    results,   \* build_structure_with_chapters: the value each call returned
    locals,    \* build_structure_with_chapters: the last call's local values
    book,      \* process_single_book: the pages document loaded
    book_chapters, \* process_single_book: chapters of the chapter info, if any
    bpc,       \* process_single_book: "start", "saved", "failed"
    saved,     \* process_single_book: the structures written to STRUCTURES_DIR
    blocals,   \* process_single_book: the builder's clean/content/reference pages
    driver,    \* batch driver: which of the three drivers runs
    books,     \* batch driver: what processing each listed book does
    bidx,      \* batch driver: number of books the loop has taken
    attempts,  \* batch driver: the positions of the books attempted, in order
    success,   \* batch driver: success
    dpc,       \* batch driver: "run", "done", "aborted"
    cstructure, \* chunking_builder.process_single_book: the structure read
    cpc,       \* chunking_builder.process_single_book: "start", "saved", "none"
    coutput,   \* chunking_builder.process_single_book: the documents written
    rtext,     \* strip_all_references: the text, a list of lines
    rpc,       \* strip_all_references: "start", "once", "twice"
    rstripped, \* strip_all_references: the text returned
    rrestripped, \* strip_all_references: the text returned for the returned text
    ntext,     \* calculate_noise_score: the page text, a list of lines
    npc,       \* calculate_noise_score: "start", "scored"
    noise_score, \* calculate_noise_score: the score returned, a fraction
    alines,    \* auto_split_oversized: the lines the chunk is made of
    achunk,    \* auto_split_oversized: the chunk of the outermost call
    astack,    \* auto_split_oversized: the calls not yet made or not yet returned
    aresult    \* auto_split_oversized: the pieces returned so far

chunkVars == <<text, pc, clean, chunks, flushes>>
tableVars == <<tlines, tpc, first, second>>
idVars == <<digest, ids, builderIds>>
fileVars == <<structure, fpc, fitem, all_chunks, gidx, written>>
structVars == <<pages_data, chapter_info, spc, results, locals>>
bookVars == <<book, book_chapters, bpc, saved, blocals>>
batchVars == <<driver, books, bidx, attempts, success, dpc>>
cbVars == <<cstructure, cpc, coutput>>
stripVars == <<rtext, rpc, rstripped, rrestripped>>
scoreVars == <<ntext, npc, noise_score>>
splitVars == <<alines, achunk, astack, aresult>>
vars == <<chunkVars, tableVars, idVars, fileVars, structVars, bookVars, batchVars, cbVars, stripVars, scoreVars, splitVars>>

\* the variables each specification leaves alone
notChunkVars == <<tableVars, idVars, fileVars, structVars, bookVars, batchVars, cbVars, stripVars, scoreVars, splitVars>>
notTableVars == <<chunkVars, idVars, fileVars, structVars, bookVars, batchVars, cbVars, stripVars, scoreVars, splitVars>>
notIdVars == <<chunkVars, tableVars, fileVars, structVars, bookVars, batchVars, cbVars, stripVars, scoreVars, splitVars>>
notFileVars == <<chunkVars, tableVars, idVars, structVars, bookVars, batchVars, cbVars, stripVars, scoreVars, splitVars>>
notStructVars == <<chunkVars, tableVars, idVars, fileVars, bookVars, batchVars, cbVars, stripVars, scoreVars, splitVars>>
notBookVars == <<chunkVars, tableVars, idVars, fileVars, structVars, batchVars, cbVars, stripVars, scoreVars, splitVars>>
notBatchVars == <<chunkVars, tableVars, idVars, fileVars, structVars, bookVars, cbVars, stripVars, scoreVars, splitVars>>
notCbVars == <<chunkVars, tableVars, idVars, fileVars, structVars, bookVars, batchVars, stripVars, scoreVars, splitVars>>
notStripVars == <<chunkVars, tableVars, idVars, fileVars, structVars, bookVars, batchVars, cbVars, scoreVars, splitVars>>
notScoreVars == <<chunkVars, tableVars, idVars, fileVars, structVars, bookVars, batchVars, cbVars, stripVars, splitVars>>
notSplitVars == <<chunkVars, tableVars, idVars, fileVars, structVars, bookVars, batchVars, cbVars, stripVars, scoreVars>>

----------------------------------------------------------------------------
(* Bounds of the model *)
MaxLines == 4
MaxTableLines == 5
MaxStride == 3
MaxRows == 3
MaxItems == 2
MaxParaSentences == 2
MaxPages == 3
MaxChapters == 2
MaxBuilds == 2
MaxLongPages == 41
MaxBooks == 3
MaxSections == 2
MaxTextLines == 5
MaxUnits == 4

----------------------------------------------------------------------------
(* MedicalChunker.__init__ defaults *)
chunk_size == 325
chunk_overlap == 80
min_chunk_size == 120
max_chunk_size == 400

----------------------------------------------------------------------------
(* Lines *)

Line(len, upper, term, abbr, noise, ref, pipes, tabs, digits, section) ==
    [len |-> len, upper |-> upper, term |-> term, abbr |-> abbr, noise |-> noise,
     ref |-> ref, pipes |-> pipes, tabs |-> tabs, digits |-> digits,
     section |-> section]

\* a sentence of n characters: "Xxxx ... xxx."
Sentence(n) == Line(n, TRUE, TRUE, FALSE, FALSE, "", 0, 0, 0, FALSE)
\* n characters of running text that neither start nor end a sentence
Fragment(n) == Line(n, FALSE, FALSE, FALSE, FALSE, "", 0, 0, 0, FALSE)
\* "Page 12": a footer line
PageFooter == Line(7, TRUE, FALSE, FALSE, TRUE, "", 0, 0, 2, FALSE)
\* "": a blank line
BlankLine == Line(0, FALSE, FALSE, FALSE, FALSE, "", 0, 0, 0, FALSE)

ChunkLines ==
    { Sentence(320), Sentence(1300), Sentence(3400), Fragment(300), PageFooter,
      BlankLine }

SeqsUpTo(S, n) == UNION { [1..k -> S] : k \in 0..n }

----------------------------------------------------------------------------
(* Strings as item sequences *)

Space == [u |-> 0, a |-> 0, b |-> 1]
Newline == [u |-> -1, a |-> 0, b |-> 1]
\* the five characters "<DOT>" when they stand in the text itself
DotMark == [u |-> -2, a |-> 0, b |-> 5]
\* the "." that replace("<DOT>", ".") puts in their place
Period == [u |-> -3, a |-> 0, b |-> 1]
IsWs(it) == it.u \in {0, -1}
Whole(i, t) == [u |-> i, a |-> 0, b |-> t[i].len]

RECURSIVE StrLen(_)
StrLen(s) == IF s = <<>> THEN 0 ELSE (Head(s).b - Head(s).a) + StrLen(Tail(s))

RECURSIVE Join(_, _)
\* sep.join(parts) for a one-character separator
Join(parts, sep) ==
    IF parts = <<>> THEN <<>>
    ELSE IF Len(parts) = 1 THEN parts[1]
    ELSE parts[1] \o <<sep>> \o Join(Tail(parts), sep)

RECURSIVE LStrip(_)
LStrip(s) == IF s # <<>> /\ IsWs(Head(s)) THEN LStrip(Tail(s)) ELSE s

RECURSIVE RStrip(_)
RStrip(s) ==
    IF s # <<>> /\ IsWs(s[Len(s)]) THEN RStrip(SubSeq(s, 1, Len(s) - 1)) ELSE s

Strip(s) == RStrip(LStrip(s))

RECURSIVE Prefix(_, _)
\* s[:n]
Prefix(s, n) ==
    IF n <= 0 \/ s = <<>> THEN <<>>
    ELSE LET h == Head(s)
             w == h.b - h.a
         IN IF w <= n THEN <<h>> \o Prefix(Tail(s), n - w)
            ELSE <<[h EXCEPT !.b = h.a + n]>>

RECURSIVE Suffix(_, _)
\* s[n:]
Suffix(s, n) ==
    IF n <= 0 \/ s = <<>> THEN s
    ELSE LET h == Head(s)
             w == h.b - h.a
         IN IF w <= n THEN Suffix(Tail(s), n - w)
            ELSE <<[h EXCEPT !.a = h.a + n]>> \o Tail(s)

estimate_tokens(s) == StrLen(s) \div 4

----------------------------------------------------------------------------
(* remove_noise *)

\* A text is given as the lines t it is drawn from and the list ls of the
\* indexes of its lines in t, so that a line keeps its identity through
\* detect_tables and remove_noise.
AllLines(t) == [k \in 1..Len(t) |-> k]

\* "\n".join of the lines ls of t; an empty line is the empty string
JoinLines(t, ls) ==
    Join([k \in 1..Len(ls) |-> IF t[ls[k]].len = 0 THEN <<>> ELSE <<Whole(ls[k], t)>>],
         Newline)

\* the lines of ls that remove_noise keeps (lines 63-76)
KeptLines(t, ls) == SelectSeq(ls, LAMBDA i : ~(t[i].len = 0 \/ t[i].noise))

\* remove_noise without the "if not stripped: continue" of lines 65-66: the
\* blank lines stay
remove_noise_KeepsBlank(t, ls) == JoinLines(t, SelectSeq(ls, LAMBDA i : ~t[i].noise))

remove_noise(t, ls) == JoinLines(t, KeptLines(t, ls))

----------------------------------------------------------------------------
(* MedicalChunker.split_by_paragraph *)

RECURSIVE SplitBlank(_, _, _)
\* text.split("\n\n"): cur is the part being read, from item i on
SplitBlank(s, i, cur) ==
    IF i > Len(s) THEN <<cur>>
    ELSE IF i < Len(s) /\ s[i] = Newline /\ s[i + 1] = Newline
         THEN <<cur>> \o SplitBlank(s, i + 2, <<>>)
    ELSE SplitBlank(s, i + 1, Append(cur, s[i]))

NonEmptyStripped(parts) ==
    LET stripped == [k \in 1..Len(parts) |-> Strip(parts[k])]
    IN SelectSeq(stripped, LAMBDA p : p # <<>>)

split_by_paragraph(s) == NonEmptyStripped(SplitBlank(s, 1, <<>>))

----------------------------------------------------------------------------
(* MedicalChunker.split_sentences *)

\* the item ends with . ! or ? that is not the dot of a protected abbreviation
EndsSentence(it, t) ==
    \/ it.u >= 1 /\ it.b = t[it.u].len /\ t[it.u].term /\ ~t[it.u].abbr
    \/ it = Period
\* the item starts with an upper-case letter
StartsUpper(it, t) == it.u >= 1 /\ it.a = 0 /\ t[it.u].upper

RECURSIVE WsEnd(_, _)
\* the first index >= i of s that is not whitespace (Len(s)+1 when none)
WsEnd(s, i) == IF i <= Len(s) /\ IsWs(s[i]) THEN WsEnd(s, i + 1) ELSE i

RECURSIVE SplitAtBoundaries(_, _, _, _)
\* re.split(r'(?<=[.!?])\s+(?=[A-Z])', text)
SplitAtBoundaries(s, t, i, cur) ==
    IF i > Len(s) THEN <<cur>>
    ELSE IF IsWs(s[i])
         THEN LET j == WsEnd(s, i)
              IN IF i > 1 /\ j <= Len(s) /\ EndsSentence(s[i - 1], t)
                    /\ StartsUpper(s[j], t)
                 THEN <<cur>> \o SplitAtBoundaries(s, t, j, <<>>)
                 ELSE SplitAtBoundaries(s, t, j, cur \o SubSeq(s, i, j - 1))
    ELSE SplitAtBoundaries(s, t, i + 1, Append(cur, s[i]))

\* p.replace("<DOT>", "."): the abbreviations get their dot back, and so
\* does every "<DOT>" the text held itself
RestoreDots(p) == [k \in 1..Len(p) |-> IF p[k] = DotMark THEN Period ELSE p[k]]

split_sentences(s, t) ==
    LET parts == NonEmptyStripped(SplitAtBoundaries(s, t, 1, <<>>))
    IN [k \in 1..Len(parts) |-> RestoreDots(parts[k])]

----------------------------------------------------------------------------
(* MedicalChunker.auto_split_oversized *)

RECURSIVE auto_split_oversized(_, _)
auto_split_oversized(chunk, t) ==
    IF estimate_tokens(chunk) <= max_chunk_size THEN <<chunk>>
    ELSE LET sentences == split_sentences(chunk, t)
         IN IF Len(sentences) <= 1
            THEN LET mid == StrLen(chunk) \div 2
                 IN <<Prefix(chunk, mid), Suffix(chunk, mid)>>
            ELSE LET mid == Len(sentences) \div 2
                     part1 == Join(SubSeq(sentences, 1, mid), Space)
                     part2 == Join(SubSeq(sentences, mid + 1, Len(sentences)), Space)
                 IN auto_split_oversized(part1, t) \o auto_split_oversized(part2, t)

----------------------------------------------------------------------------
(* MedicalChunker.merge_small_chunks *)

RECURSIVE MergeLoop(_, _, _, _, _)
\* the for loop: merged, buffer and buffer_tokens before chunk i
MergeLoop(cs, i, merged, buffer, buffer_tokens) ==
    IF i > Len(cs)
    THEN IF buffer # <<>>
         THEN IF merged # <<>>
              THEN [merged EXCEPT ![Len(merged)] = @ \o <<Space>> \o Join(buffer, Space)]
              ELSE <<Join(buffer, Space)>>
         ELSE merged
    ELSE LET tokens == estimate_tokens(cs[i])
         IN IF tokens >= min_chunk_size
            THEN MergeLoop(cs, i + 1,
                     (IF buffer # <<>> THEN Append(merged, Join(buffer, Space))
                      ELSE merged) \o <<cs[i]>>,
                     <<>>, 0)
            ELSE IF buffer_tokens + tokens >= min_chunk_size
                 THEN MergeLoop(cs, i + 1,
                          Append(merged, Join(Append(buffer, cs[i]), Space)), <<>>, 0)
                 ELSE MergeLoop(cs, i + 1, merged, Append(buffer, cs[i]),
                          buffer_tokens + tokens)

merge_small_chunks(cs) == IF cs = <<>> THEN <<>> ELSE MergeLoop(cs, 1, <<>>, <<>>, 0)

----------------------------------------------------------------------------
(* MedicalChunker.chunk_text: the packing loop (lines 281-335) *)

RECURSIVE SumTokens(_)
SumTokens(ss) == IF ss = <<>> THEN 0 ELSE estimate_tokens(Head(ss)) + SumTokens(Tail(ss))

RECURSIVE Overlap_SkipLarge(_, _, _)
\* Overlap with "continue" for the "break" of line 308: a sentence that does
\* not fit is passed over and the ones before it are still tried
Overlap_SkipLarge(current, k, overlap) ==
    IF k = 0 THEN overlap
    ELSE IF SumTokens(overlap) + estimate_tokens(current[k]) <= chunk_overlap
         THEN Overlap_SkipLarge(current, k - 1, <<current[k]>> \o overlap)
    ELSE Overlap_SkipLarge(current, k - 1, overlap)

\* Overlap without the chunk_overlap limit of line 304: the whole buffer
Overlap_WholeBuffer(current, k, overlap) == current

RECURSIVE Overlap(_, _, _)
\* for s in reversed(current): the sentences carried forward after a flush
Overlap(current, k, overlap) ==
    IF k = 0 THEN overlap
    ELSE IF SumTokens(overlap) + estimate_tokens(current[k]) <= chunk_overlap
         THEN Overlap(current, k - 1, <<current[k]>> \o overlap)
    ELSE overlap

\* the packing state: chunks, current, current_tokens and the flush history
PackState(cs, cur, tok, fl) == [chunks |-> cs, current |-> cur, tokens |-> tok, flushes |-> fl]

RECURSIVE PackSentences(_, _, _)
\* for sent in sentences (lines 296-316)
PackSentences(sentences, j, st) ==
    IF j > Len(sentences) THEN st
    ELSE LET sent == sentences[j]
             sent_tokens == estimate_tokens(sent)
         IN IF st.tokens + sent_tokens > chunk_size /\ st.current # <<>>
            THEN LET overlap == Overlap(st.current, Len(st.current), <<>>)
                 IN PackSentences(sentences, j + 1,
                        PackState(Append(st.chunks, Join(st.current, Space)),
                                  Append(overlap, sent),
                                  SumTokens(overlap) + sent_tokens,
                                  Append(st.flushes,
                                         [flushed |-> st.current, carried |-> overlap,
                                          kind |-> "sentence"])))
            ELSE PackSentences(sentences, j + 1,
                     PackState(st.chunks, Append(st.current, sent),
                               st.tokens + sent_tokens, st.flushes))

\* the else branch of the paragraph loop (lines 318-332)
PackParagraph(para, st) ==
    LET para_tokens == estimate_tokens(para)
    IN IF st.tokens + para_tokens > chunk_size /\ st.current # <<>>
       THEN LET last_para == st.current[Len(st.current)]
                last_tokens == estimate_tokens(last_para)
                seed == IF last_tokens <= chunk_overlap THEN <<last_para>> ELSE <<>>
            IN PackState(Append(st.chunks, Join(st.current, Space)),
                         Append(seed, para),
                         (IF seed = <<>> THEN 0 ELSE last_tokens) + para_tokens,
                         Append(st.flushes,
                                [flushed |-> st.current, carried |-> seed,
                                 kind |-> "paragraph"]))
       ELSE PackState(st.chunks, Append(st.current, para), st.tokens + para_tokens,
                      st.flushes)

RECURSIVE PackParagraphs(_, _, _, _)
\* for para in paragraphs (lines 285-332)
PackParagraphs(paragraphs, t, i, st) ==
    IF i > Len(paragraphs) THEN st
    ELSE LET para == paragraphs[i]
         IN IF estimate_tokens(para) > chunk_size
            THEN LET flushed == IF st.current # <<>>
                                THEN PackState(Append(st.chunks, Join(st.current, Space)),
                                               <<>>, 0, st.flushes)
                                ELSE st
                 IN PackParagraphs(paragraphs, t, i + 1,
                        PackSentences(split_sentences(para, t), 1, flushed))
            ELSE PackParagraphs(paragraphs, t, i + 1, PackParagraph(para, st))

\* Pack without the final "if current: chunks.append(...)" of lines 334-335
Pack_NoFinalFlush(s, t) ==
    PackParagraphs(split_by_paragraph(s), t, 1, PackState(<<>>, <<>>, 0, <<>>))

\* lines 279-335: the chunks before splitting and merging, with the flush history
Pack(s, t) ==
    LET st == PackParagraphs(split_by_paragraph(s), t, 1, PackState(<<>>, <<>>, 0, <<>>))
    IN IF st.current # <<>>
       THEN [st EXCEPT !.chunks = Append(@, Join(st.current, Space))]
       ELSE st

RECURSIVE SplitAll(_, _, _)
\* lines 338-344
SplitAll(cs, t, i) ==
    IF i > Len(cs) THEN <<>>
    ELSE (IF estimate_tokens(cs[i]) > max_chunk_size
          THEN auto_split_oversized(cs[i], t) ELSE <<cs[i]>>) \o SplitAll(cs, t, i + 1)

\* lines 274-277: chunk_text returns [] for an empty or undersized text
TooSmall(s) == s = <<>> \/ estimate_tokens(s) < min_chunk_size

\* MedicalChunker.chunk_text as one function of the text
chunk_text(t, ls) ==
    LET s == remove_noise(t, ls)
    IN IF TooSmall(s) THEN <<>>
       ELSE merge_small_chunks(SplitAll(Pack(s, t).chunks, t, 1))

----------------------------------------------------------------------------
(* detect_tables *)

\* Python's None
None == "None"

\* "See methods below."
Prose == Line(18, TRUE, TRUE, FALSE, FALSE, "", 0, 0, 0, FALSE)
\* "Age\tRisk\tCases": a tab-separated row
TabRow == Line(14, TRUE, FALSE, FALSE, FALSE, "", 0, 2, 0, FALSE)
\* "2019": digits only (also a bare page number for remove_noise)
DigitLine == Line(4, FALSE, FALSE, FALSE, TRUE, "", 0, 0, 4, FALSE)
\* "Table 4.2 Risk Factors": a caption
Caption == Line(22, TRUE, FALSE, FALSE, FALSE, "Table 4.2", 0, 0, 2, FALSE)
\* "Table 1|2|3": a row that also matches the reference pattern
RefRow == Line(11, TRUE, FALSE, FALSE, FALSE, "Table 1", 2, 0, 3, FALSE)

TableLines == { Prose, TabRow, DigitLine, Caption, RefRow }

\* line 106
has_separators(l) == l.pipes >= 2 \/ l.tabs >= 2
\* line 107 and 110: digit_ratio > 0.3
DigitHeavy(l) == 10 * l.digits > 3 * (IF l.len > 1 THEN l.len ELSE 1)
\* line 110
IsTableLine(l) == has_separators(l) \/ DigitHeavy(l)

\* lines 120-124 and 136-140; rows keeps the indexes of the table's lines
TableRecord(t, table_lines, table_reference) ==
    [content |-> JoinLines(t, table_lines), reference |-> table_reference,
     row_count |-> Len(table_lines), rows |-> table_lines]

NoTables == [tables |-> <<>>, clean |-> <<>>]

DetectState(in_table, table_lines, non_table_lines, table_reference, tables) ==
    [in_table |-> in_table, table_lines |-> table_lines,
     non_table_lines |-> non_table_lines, table_reference |-> table_reference,
     tables |-> tables]

\* DetectLine with line 132 (non_table_lines.append(line)) skipped for the
\* line that ends a table run
DetectLine_DropsEndingLine(t, i, st) ==
    IF t[i].ref # "" /\ ~st.in_table
    THEN [st EXCEPT !.table_reference = t[i].ref]
    ELSE IF IsTableLine(t[i])
         THEN IF ~st.in_table
              THEN [st EXCEPT !.in_table = TRUE, !.table_lines = <<i>>]
              ELSE [st EXCEPT !.table_lines = Append(@, i)]
    ELSE IF st.in_table /\ st.table_lines # <<>>
         THEN IF Len(st.table_lines) >= 2
              THEN DetectState(FALSE, <<>>, st.non_table_lines, None,
                       Append(st.tables,
                              TableRecord(t, st.table_lines, st.table_reference)))
              ELSE DetectState(FALSE, <<>>, st.non_table_lines \o st.table_lines,
                       None, st.tables)
    ELSE [st EXCEPT !.non_table_lines = Append(@, i)]

\* one iteration of the for loop (lines 96-132) on line i of t
DetectLine(t, i, st) ==
    IF t[i].ref # "" /\ ~st.in_table
    THEN [st EXCEPT !.table_reference = t[i].ref]
    ELSE IF IsTableLine(t[i])
         THEN IF ~st.in_table
              THEN [st EXCEPT !.in_table = TRUE, !.table_lines = <<i>>]
              ELSE [st EXCEPT !.table_lines = Append(@, i)]
    ELSE IF st.in_table /\ st.table_lines # <<>>
         THEN IF Len(st.table_lines) >= 2
              THEN DetectState(FALSE, <<>>, Append(st.non_table_lines, i), None,
                       Append(st.tables,
                              TableRecord(t, st.table_lines, st.table_reference)))
              ELSE DetectState(FALSE, <<>>,
                       Append(st.non_table_lines \o st.table_lines, i), None,
                       st.tables)
    ELSE [st EXCEPT !.non_table_lines = Append(@, i)]

RECURSIVE DetectLoop(_, _, _, _)
DetectLoop(t, ls, k, st) ==
    IF k > Len(ls) THEN st ELSE DetectLoop(t, ls, k + 1, DetectLine(t, ls[k], st))

\* detect_tables(text) for the text made of the lines ls of t: the tables and
\* the indexes of the lines of clean_text
detect_tables(t, ls) ==
    LET st == DetectLoop(t, ls, 1, DetectState(FALSE, <<>>, <<>>, None, <<>>))
    IN [tables |-> IF st.in_table /\ Len(st.table_lines) >= 2
                   THEN Append(st.tables,
                               TableRecord(t, st.table_lines, st.table_reference))
                   ELSE st.tables,
        clean |-> st.non_table_lines]

----------------------------------------------------------------------------
(* generate_book_id (chunker_RAG_PRODUCTION.py and chunking_builder.py) *)

\* the alphabet "0123456789ABCDEFGHIJKLMNOPQRSTUVWXYZabcdefghijklmnopqrstuvwxyz"
chars ==
    << "0", "1", "2", "3", "4", "5", "6", "7", "8", "9",
       "A", "B", "C", "D", "E", "F", "G", "H", "I", "J", "K", "L", "M",
       "N", "O", "P", "Q", "R", "S", "T", "U", "V", "W", "X", "Y", "Z",
       "a", "b", "c", "d", "e", "f", "g", "h", "i", "j", "k", "l", "m",
       "n", "o", "p", "q", "r", "s", "t", "u", "v", "w", "x", "y", "z" >>

\* hashlib.sha256(...).digest() is 32 bytes
DigestBytes == 32
ByteRange == 256
HexBase == 16
\* chunker_RAG_PRODUCTION.py line 26: stop at 21 characters
IdLength == 21
\* chunking_builder.py line 37: range(0, 42, 2)
BuilderStop == 42

\* sha256 is not computed: a digest is any list of 32 bytes; the model draws
\* the lists seed, seed + stride, seed + 2 stride, ... (mod 256)
DigestOf(seed, stride) ==
    [k \in 1..DigestBytes |-> (seed + (k - 1) * stride) % ByteRange]

Digests == { DigestOf(seed, stride) : seed \in 0..(ByteRange - 1), stride \in 0..MaxStride }

\* hexdigest(): two hexadecimal digits per byte, high digit first
hexdigest(d) ==
    [k \in 1..(2 * Len(d)) |->
        IF k % 2 = 1 THEN d[(k + 1) \div 2] \div HexBase ELSE d[k \div 2] % HexBase]

\* chars[int(h[i:i+2], 16) % len(chars)] for the 0-based offset i
IdChar(h, i) == chars[((HexBase * h[i + 1] + h[i + 2]) % Len(chars)) + 1]

RECURSIVE IdLoop(_, _, _)
\* chunker_RAG_PRODUCTION.py lines 24-27: for i in range(0, len(h), 2), with
\* the break once 21 characters are out
IdLoop(h, i, out) ==
    IF i >= Len(h) THEN out
    ELSE LET out1 == Append(out, IdChar(h, i))
         IN IF Len(out1) = IdLength THEN out1 ELSE IdLoop(h, i + 2, out1)

\* chunker_RAG_PRODUCTION.generate_book_id, from the digest of the name
generate_book_id(d) == IdLoop(hexdigest(d), 0, <<>>)

\* builder_generate_book_id with range(0, 40, 2)
builder_generate_book_id_Short(d) ==
    LET h == hexdigest(d)
    IN [k \in 1..((BuilderStop \div 2) - 1) |-> IdChar(h, 2 * (k - 1))]

\* chunking_builder.generate_book_id: i in range(0, 42, 2)
builder_generate_book_id(d) ==
    LET h == hexdigest(d)
    IN [k \in 1..(BuilderStop \div 2) |-> IdChar(h, 2 * (k - 1))]

----------------------------------------------------------------------------
(* extract_section_name, build_metadata, chunk_structure_file *)

\* "Introduction": a section marker line
Heading == Line(12, TRUE, FALSE, FALSE, FALSE, "", 0, 0, 0, TRUE)

RECURSIVE SplitNewline(_, _, _)
\* text.split("\n")
SplitNewline(s, i, cur) ==
    IF i > Len(s) THEN <<cur>>
    ELSE IF s[i] = Newline THEN <<cur>> \o SplitNewline(s, i + 1, <<>>)
    ELSE SplitNewline(s, i + 1, Append(cur, s[i]))

\* the stripped line is exactly one whole line that matches SECTION_MARKERS
IsSectionMarker(line, t) ==
    LET stripped == Strip(line)
    IN Len(stripped) = 1 /\ stripped[1].u >= 1 /\ stripped[1] = Whole(stripped[1].u, t)
       /\ t[stripped[1].u].section

\* the section name of a chunk without one (Python's None)
NoName == <<>>

\* lines 160-170: the first of the first three lines that is a section marker
extract_section_name(s, t) ==
    LET all == SplitNewline(Strip(s), 1, <<>>)
        lines == SubSeq(all, 1, IF Len(all) < 3 THEN Len(all) ELSE 3)
        hits == SelectSeq(lines, LAMBDA l : IsSectionMarker(l, t))
    IN IF hits = <<>> THEN NoName ELSE Strip(hits[1])

\* f"{book_id}_chunk_{idx}"
ChunkId(book_id, idx) == <<book_id, "_chunk_", idx>>

\* lines 354-401; a key build_metadata leaves out is None or NoName here, and item is the
\* position of the chapter/section whose number, title and page range are copied
build_metadata(book_id, book_name, category, item, idx, s, t, chunk_type, has_overlap, is_chapter, table_reference) ==
    [book_id |-> book_id, book_name |-> book_name, category |-> category,
     chunk_id |-> ChunkId(book_id, idx), chunk_index |-> idx,
     chunk_type |-> chunk_type, has_overlap |-> has_overlap,
     token_estimate |-> StrLen(s) \div 4, char_count |-> StrLen(s),
     source_type |-> IF is_chapter THEN "chapter" ELSE "section",
     section_name |-> IF chunk_type = "text" THEN extract_section_name(s, t)
                      ELSE NoName,
     table_reference |-> table_reference,
     item |-> item]

\* line 418
Items(st) == IF st.has_chapters THEN st.chapters ELSE st.sections

\* line 429: full_text below 500 characters is skipped
MinItemChars == 500
SkipItem(t) == t = <<>> \/ StrLen(JoinLines(t, AllLines(t))) < MinItemChars

FileState(cs, g) == [all_chunks |-> cs, gidx |-> g]

RECURSIVE TableChunks_NoIncrement(_, _, _, _, _, _)
\* TableChunks without the "gidx += 1" of line 452
TableChunks_NoIncrement(st, book_id, item, tables, j, fs) ==
    IF j > Len(tables) THEN fs
    ELSE TableChunks_NoIncrement(st, book_id, item, tables, j + 1,
             FileState(Append(fs.all_chunks,
                           [text |-> tables[j].content,
                            metadata |-> build_metadata(book_id, st.book_id, st.category,
                                            item, fs.gidx, tables[j].content,
                                            Items(st)[item].full_text, "table", FALSE,
                                            st.has_chapters, tables[j].reference)]),
                       fs.gidx))

RECURSIVE TableChunks(_, _, _, _, _, _)
\* lines 436-452: one chunk per table, gidx incremented after each
TableChunks(st, book_id, item, tables, j, fs) ==
    IF j > Len(tables) THEN fs
    ELSE TableChunks(st, book_id, item, tables, j + 1,
             FileState(Append(fs.all_chunks,
                           [text |-> tables[j].content,
                            metadata |-> build_metadata(book_id, st.book_id, st.category,
                                            item, fs.gidx, tables[j].content,
                                            Items(st)[item].full_text, "table", FALSE,
                                            st.has_chapters, tables[j].reference)]),
                       fs.gidx + 1))

\* has_overlap=i >= 0: every text chunk flagged
TextHasOverlap_Always(i) == i >= 0

\* line 468: has_overlap=i > 0
TextHasOverlap(i) == i > 0

RECURSIVE TextChunks(_, _, _, _, _, _)
\* lines 457-472: one chunk per text chunk, i = j - 1 the enumerate index
TextChunks(st, book_id, item, text_chunks, j, fs) ==
    IF j > Len(text_chunks) THEN fs
    ELSE TextChunks(st, book_id, item, text_chunks, j + 1,
             FileState(Append(fs.all_chunks,
                           [text |-> text_chunks[j],
                            metadata |-> build_metadata(book_id, st.book_id, st.category,
                                            item, fs.gidx, text_chunks[j],
                                            Items(st)[item].full_text, "text",
                                            TextHasOverlap(j - 1), st.has_chapters,
                                            None)]),
                       fs.gidx + 1))

\* the body of the for loop (lines 427-472) for the item at position item
ProcessItemBody(st, book_id, item, fs) ==
    LET t == Items(st)[item].full_text
    IN IF SkipItem(t) THEN fs
       ELSE LET found == detect_tables(t, AllLines(t))
                withTables == TableChunks(st, book_id, item, found.tables, 1, fs)
            IN TextChunks(st, book_id, item, chunk_text(t, found.clean), 1, withTables)

RECURSIVE MinOf(_)
MinOf(ns) == IF Len(ns) = 1 THEN ns[1]
             ELSE LET m == MinOf(Tail(ns)) IN IF ns[1] < m THEN ns[1] ELSE m
RECURSIVE MaxOf(_)
MaxOf(ns) == IF Len(ns) = 1 THEN ns[1]
             ELSE LET m == MaxOf(Tail(ns)) IN IF ns[1] > m THEN ns[1] ELSE m
RECURSIVE SumOf(_)
SumOf(ns) == IF ns = <<>> THEN 0 ELSE Head(ns) + SumOf(Tail(ns))

\* lines 478-502: the output document
Output(st, book_id, cs) ==
    LET tokens == [k \in 1..Len(cs) |-> cs[k].metadata.token_estimate]
        table_count == Len(SelectSeq(cs, LAMBDA c : c.metadata.chunk_type = "table"))
    IN [book_id |-> book_id, book_name |-> st.book_id, category |-> st.category,
        total_chunks |-> Len(cs),
        chunk_statistics |->
            [total |-> Len(cs), text_chunks |-> Len(cs) - table_count,
             table_chunks |-> table_count, avg_tokens |-> SumOf(tokens) \div Len(tokens),
             min_tokens |-> MinOf(tokens), max_tokens |-> MaxOf(tokens)],
        config |-> [chunk_size |-> chunk_size, chunk_overlap |-> chunk_overlap,
                    min_chunk_size |-> min_chunk_size, max_chunk_size |-> max_chunk_size],
        chunks |-> cs]

----------------------------------------------------------------------------
(* The structure files the model reads *)

Rows(k) == [j \in 1..k |-> TabRow]

\* a short body, and a body chunk_text cuts into two chunks
ShortBody == <<Prose>>
LongBody == <<Heading, Sentence(1300), Sentence(1300), Sentence(320)>>

CaptionedTables == { <<Caption>> \o Rows(k) : k \in 2..MaxRows }

ItemTexts ==
    { pre \o tbl \o body :
        pre \in {<<>>, <<DigitLine>>},
        tbl \in CaptionedTables \cup {<<>>},
        body \in {ShortBody, LongBody} }
    \cup { <<Caption>> \o Rows(2) \o <<Prose>> \o Rows(2) \o LongBody }

ItemLists == { [k \in 1..Len(ts) |-> [full_text |-> ts[k]]] : ts \in SeqsUpTo(ItemTexts, MaxItems) }

NoStructure ==
    [book_id |-> <<>>, category |-> "", has_chapters |-> FALSE, chapters |-> <<>>,
     sections |-> <<>>]

\* the book name's digest stands for the name
BookName == DigestOf(7, 3)

Structures ==
    { [book_id |-> BookName, category |-> "chapter", has_chapters |-> TRUE,
       chapters |-> its, sections |-> <<>>] : its \in ItemLists }
    \cup
    { [book_id |-> BookName, category |-> "non_chapter", has_chapters |-> FALSE,
       chapters |-> <<>>, sections |-> its] : its \in ItemLists }

----------------------------------------------------------------------------
(* structure_builder.py: page lines by the features its patterns read *)

\* a line of a page: id names the line; len is its length; hdr is whether it
\* matches PAGE_HEADER_PATTERNS; words are the title keywords it contains
\* (lower-cased); noise and content count the NOISE_PATTERNS and
\* CONTENT_INDICATORS found in it; refhead is whether it matches
\* REFERENCE_PATTERNS; refind is whether a REFERENCE_LIST_INDICATORS pattern
\* is found in it as written and refcount counts those found in it lower-cased;
\* numeric, titleok and prefix are the tests of extract_real_chapter_title
PageLine(id, len, hdr, words, noise, content, refhead, refind, refcount, numeric, titleok, prefix) ==
    [id |-> id, len |-> len, hdr |-> hdr, words |-> words, noise |-> noise,
     content |-> content, refhead |-> refhead, refind |-> refind,
     refcount |-> refcount, numeric |-> numeric, titleok |-> titleok,
     prefix |-> prefix]

\* "14 Ovarian Tumors 2"
RunningHeadB ==
    PageLine("RunningHeadB", 19, TRUE, {"ovarian", "tumors"}, 0, 0, FALSE, FALSE, 0, FALSE, FALSE, FALSE)
\* "Cervical Cancer Screening"
HeadingA ==
    PageLine("HeadingA", 25, FALSE, {"cancer", "cervical"}, 0, 1, FALSE, TRUE, 0, FALSE, TRUE, FALSE)
\* "Chapter 2: Ovarian Tumors and Cysts"
HeadingB ==
    PageLine("HeadingB", 35, FALSE, {"ovarian", "tumors"}, 0, 0, FALSE, FALSE, 0, FALSE, TRUE, TRUE)
\* "Patients were treated with surgery and radiotherapy after th ..."
ProseLine ==
    PageLine("ProseLine", 202, FALSE, {}, 0, 2, FALSE, FALSE, 0, FALSE, FALSE, FALSE)
\* "The results are shown below."
ShortProse ==
    PageLine("ShortProse", 28, FALSE, {}, 0, 1, FALSE, FALSE, 0, FALSE, FALSE, FALSE)
\* "Copyright 2020. All rights reserved."
CopyrightLine ==
    PageLine("CopyrightLine", 36, FALSE, {}, 2, 0, FALSE, FALSE, 0, FALSE, FALSE, FALSE)
\* "ISBN 978-3-16-148410-0"
IsbnLine ==
    PageLine("IsbnLine", 22, FALSE, {}, 1, 0, FALSE, FALSE, 0, FALSE, FALSE, FALSE)
\* "References"
ReferencesHead ==
    PageLine("ReferencesHead", 10, FALSE, {}, 1, 0, TRUE, FALSE, 0, FALSE, TRUE, FALSE)
\* "1. Smith J, et al. Screening methods. J Clin Oncol (2019) do ..."
Citation ==
    PageLine("Citation", 71, FALSE, {}, 0, 1, FALSE, TRUE, 3, FALSE, FALSE, FALSE)
\* ""
EmptyLine ==
    PageLine("EmptyLine", 0, FALSE, {}, 0, 0, FALSE, FALSE, 0, FALSE, FALSE, FALSE)

\* "Cervical Cancer"
TitleA == [id |-> "TitleA", keywords |-> {"cancer", "cervical"}]
\* "Ovarian Tumors"
TitleB == [id |-> "TitleB", keywords |-> {"ovarian", "tumors"}]
\* "The Eye"
TitleC == [id |-> "TitleC", keywords |-> {}]

PageA == <<HeadingA, ProseLine, ShortProse>>
PageB == <<HeadingB, ProseLine>>
PagePlain == <<RunningHeadB, ProseLine, ShortProse>>
PageNoise == <<CopyrightLine, IsbnLine>>
PageRefs == <<ReferencesHead, Citation, Citation, Citation>>
PageCited == <<ProseLine, EmptyLine, Citation, Citation, Citation>>

----------------------------------------------------------------------------
(* structure_builder.py: the functions of build_structure_with_chapters.
   A page text is the list of its lines; list indices are the code's,
   counted from 0. *)

\* None where the code holds an index or a number
NoneInt == -1

\* len(text) of the lines joined by "\n"
TextLen(ls) ==
    IF ls = <<>> THEN 0 ELSE SumOf([k \in 1..Len(ls) |-> ls[k].len]) + Len(ls) - 1

\* text.strip(): the empty lines at both ends go
RECURSIVE StripText(_)
StripText(ls) ==
    IF ls = <<>> THEN <<>>
    ELSE IF ls[1].len = 0 THEN StripText(Tail(ls))
    ELSE IF ls[Len(ls)].len = 0 THEN StripText(SubSeq(ls, 1, Len(ls) - 1))
    ELSE ls

\* [l.strip() for l in text.split('\n') if l.strip()]
NonBlankLines(ls) == SelectSeq(ls, LAMBDA l : l.len > 0)

\* lines[:n]
FirstLines(ls, n) == SubSeq(ls, 1, IF Len(ls) < n THEN Len(ls) ELSE n)

remove_all_page_headers(ls) == SelectSeq(ls, LAMBDA l : ~l.hdr)

\* the title string: the text named by id, with its "Chapter N:" prefix
\* removed when stripped
TitleString(id, stripped) == [text |-> id, stripped |-> stripped]

extract_real_chapter_title(page_text, fallback_title) ==
    LET lines == FirstLines(NonBlankLines(remove_all_page_headers(page_text)), 10)
        hits == { i \in 1..Len(lines) :
                    /\ lines[i].len >= 5
                    /\ ~lines[i].numeric
                    /\ lines[i].titleok }
    IN IF hits = {} THEN fallback_title
       ELSE LET i == CHOOSE h \in hits : \A g \in hits : h <= g
            IN TitleString(lines[i].id, lines[i].prefix)

\* lines 185-202: the index two lines before the first run of three
\* reference-like lines reaches three
RECURSIVE RefRunLoop(_, _, _, _)
RefRunLoop(lines, i, consecutive_refs, ref_start_idx) ==
    IF i >= Len(lines) THEN ref_start_idx
    ELSE IF lines[i + 1].refind
         THEN RefRunLoop(lines, i + 1, consecutive_refs + 1,
                         IF consecutive_refs + 1 >= 3 /\ ref_start_idx = NoneInt
                         THEN i - 2 ELSE ref_start_idx)
         ELSE RefRunLoop(lines, i + 1, 0, ref_start_idx)

strip_all_references(lines) ==
    LET heads == { i \in 0..Len(lines) - 1 : lines[i + 1].refhead }
        ref_start_idx == RefRunLoop(lines, 0, 0, NoneInt)
    IN IF heads # {}
       THEN LET i == CHOOSE h \in heads : \A g \in heads : h <= g
            IN StripText(SubSeq(lines, 1, i))
       ELSE IF ref_start_idx # NoneInt /\ ref_start_idx # 0
            THEN StripText(SubSeq(lines, 1, ref_start_idx))
            ELSE StripText(lines)

\* line 234: the line holds at least 60% of the title's keywords
TitleMatches(line, title) ==
    /\ Cardinality(title.keywords) > 0
    /\ 10 * Cardinality(title.keywords \cap line.words)
           >= 6 * Cardinality(title.keywords)

NoBoundaries == [c \in {} |-> 0]

RECURSIVE BoundaryLoop_LastPage(_, _, _, _)
\* BoundaryLoop without the test of line 237 (chapter_idx not in boundaries):
\* a later page that matches replaces the earlier one
BoundaryLoop_LastPage(pages, chapter_titles, idx, boundaries) ==
    IF idx >= Len(pages) THEN boundaries
    ELSE LET text_clean == remove_all_page_headers(pages[idx + 1].text)
             lines == FirstLines(NonBlankLines(text_clean), 15)
             found == { c \in 0..Len(chapter_titles) - 1 :
                          \E k \in 1..Len(lines) :
                              TitleMatches(lines[k], chapter_titles[c + 1]) }
         IN BoundaryLoop_LastPage(pages, chapter_titles, idx + 1,
                         [c \in DOMAIN boundaries \cup found |->
                             IF c \in found THEN idx ELSE boundaries[c]])

RECURSIVE BoundaryLoop(_, _, _, _)
BoundaryLoop(pages, chapter_titles, idx, boundaries) ==
    IF idx >= Len(pages) THEN boundaries
    ELSE LET text_clean == remove_all_page_headers(pages[idx + 1].text)
             lines == FirstLines(NonBlankLines(text_clean), 15)
             found == { c \in 0..Len(chapter_titles) - 1 :
                          /\ c \notin DOMAIN boundaries
                          /\ \E k \in 1..Len(lines) :
                                TitleMatches(lines[k], chapter_titles[c + 1]) }
         IN BoundaryLoop(pages, chapter_titles, idx + 1,
                         [c \in DOMAIN boundaries \cup found |->
                             IF c \in DOMAIN boundaries THEN boundaries[c] ELSE idx])

detect_chapter_boundaries(pages, chapter_titles) ==
    BoundaryLoop(pages, chapter_titles, 0, NoBoundaries)

is_reference_section(page_text) ==
    LET lines == NonBlankLines(StripText(page_text))
        ref_count == SumOf([k \in 1..Len(lines) |-> lines[k].refcount])
    IN IF lines = <<>> THEN FALSE
       ELSE IF \E k \in 1..Len(FirstLines(lines, 5)) : lines[k].refhead THEN TRUE
       ELSE Len(lines) > 5 /\ 10 * ref_count > 4 * Len(lines)

\* the score as the fraction num / den
calculate_noise_score(page_text) ==
    LET lines == NonBlankLines(StripText(page_text))
        noise_lines == SumOf([k \in 1..Len(lines) |-> lines[k].noise])
        content_lines == SumOf([k \in 1..Len(lines) |-> lines[k].content])
        total_lines == Len(lines)
        den == 10 * total_lines
        num == 10 * noise_lines
                 + (IF TextLen(StripText(page_text)) < 200 THEN 3 * total_lines ELSE 0)
                 - 5 * content_lines
    IN IF TextLen(StripText(page_text)) < 30 \/ lines = <<>>
       THEN [num |-> 1, den |-> 1]
       ELSE [num |-> IF num < 0 THEN 0 ELSE IF num > den THEN den ELSE num,
             den |-> den]

\* threshold = 0.4
is_noise_page(page_data) ==
    LET score == calculate_noise_score(page_data.text)
    IN 10 * score.num > 4 * score.den

\* filter_noise_pages with filtered.insert(0, page): the kept pages reversed
filter_noise_pages_Reversed(pages) ==
    LET kept == SelectSeq(pages, LAMBDA p : ~is_noise_page(p))
    IN [k \in 1..Len(kept) |-> kept[Len(kept) + 1 - k]]

filter_noise_pages(pages) == SelectSeq(pages, LAMBDA p : ~is_noise_page(p))

find_reference_start(pages) ==
    LET hits == { i \in 0..Len(pages) - 1 : is_reference_section(pages[i + 1].text) }
    IN IF hits = {} THEN NoneInt ELSE CHOOSE h \in hits : \A g \in hits : h <= g

----------------------------------------------------------------------------
(* structure_builder.py: build_structure_with_chapters *)

\* "\n".join(texts): the texts joined without the blank line between them
RECURSIVE JoinTexts_SingleNewline(_)
JoinTexts_SingleNewline(texts) ==
    LET AsLines(t) == IF t = <<>> THEN <<EmptyLine>> ELSE t
    IN IF texts = <<>> THEN <<>>
       ELSE IF Len(texts) = 1 THEN texts[1]
       ELSE AsLines(texts[1]) \o AsLines(JoinTexts_SingleNewline(Tail(texts)))

\* "\n\n".join(texts): an empty text is one empty line
RECURSIVE JoinTexts(_)
JoinTexts(texts) ==
    LET AsLines(t) == IF t = <<>> THEN <<EmptyLine>> ELSE t
    IN IF texts = <<>> THEN <<>>
       ELSE IF Len(texts) = 1 THEN texts[1]
       ELSE AsLines(texts[1]) \o <<EmptyLine>> \o AsLines(JoinTexts(Tail(texts)))

\* lines 463-474 with the estimate of the start shifted by one page
ChapterRange_ShiftedEstimate(i, n, m, boundaries) ==
    LET actual_start == IF i \in DOMAIN boundaries THEN boundaries[i]
                        ELSE i * (n \div m) + (IF i > 0 /\ n > 1 THEN 1 ELSE 0)
        actual_end == IF (i + 1) \in DOMAIN boundaries THEN boundaries[i + 1] - 1
                      ELSE IF i = m - 1 THEN n - 1
                      ELSE MinOf(<<actual_start + (n \div m), n - 1>>)
    IN [actual_start |-> actual_start, actual_end |-> actual_end]

\* lines 463-474: the page indices of chapter i among n content pages and
\* m chapters
ChapterRange(i, n, m, boundaries) ==
    LET actual_start == IF i \in DOMAIN boundaries THEN boundaries[i]
                        ELSE i * (n \div m)
        actual_end == IF (i + 1) \in DOMAIN boundaries THEN boundaries[i + 1] - 1
                      ELSE IF i = m - 1 THEN n - 1
                      ELSE MinOf(<<actual_start + (n \div m), n - 1>>)
    IN [actual_start |-> actual_start, actual_end |-> actual_end]

\* lines 482-492
CleanChapterPage(p) ==
    [p EXCEPT !.text = strip_all_references(remove_all_page_headers(p.text))]

\* lines 494-510
ChapterRecord(chapter_meta, cleaned_pages, has_real_chapters, chapters) ==
    [chapter_number |-> IF has_real_chapters THEN chapter_meta.chapter_number ELSE NoneInt,
     section_number |-> IF has_real_chapters THEN NoneInt ELSE Len(chapters) + 1,
     title |-> extract_real_chapter_title(cleaned_pages[1].text,
                                          TitleString(chapter_meta.title.id, FALSE)),
     start_page |-> cleaned_pages[1].page_no,
     end_page |-> cleaned_pages[Len(cleaned_pages)].page_no,
     total_pages |-> Len(cleaned_pages),
     full_text |-> JoinTexts([k \in 1..Len(cleaned_pages) |-> cleaned_pages[k].text]),
     pages |-> cleaned_pages]

\* lines 461-510: the loop over chapters_meta
RECURSIVE ChapterLoop(_, _, _, _, _, _)
ChapterLoop(content_pages, chapters_meta, boundaries, has_real_chapters, i, chapters) ==
    IF i >= Len(chapters_meta) THEN chapters
    ELSE LET r == ChapterRange(i, Len(content_pages), Len(chapters_meta), boundaries)
             chapter_pages == SubSeq(content_pages, r.actual_start + 1, r.actual_end + 1)
             cleaned_pages == [k \in 1..Len(chapter_pages) |-> CleanChapterPage(chapter_pages[k])]
         IN ChapterLoop(content_pages, chapters_meta, boundaries, has_real_chapters, i + 1,
                IF chapter_pages = <<>> THEN chapters
                ELSE Append(chapters, ChapterRecord(chapters_meta[i + 1], cleaned_pages,
                                                    has_real_chapters, chapters)))

\* lines 512-527: no section is the empty list, a section a list of one
ReferenceSection(reference_pages) ==
    IF reference_pages = <<>> THEN <<>>
    ELSE LET cleaned_refs == [k \in 1..Len(reference_pages) |->
                 [reference_pages[k] EXCEPT
                     !.text = remove_all_page_headers(reference_pages[k].text)]]
         IN << [section_type |-> "references",
                title |-> "References",
                start_page |-> cleaned_refs[1].page_no,
                end_page |-> cleaned_refs[Len(cleaned_refs)].page_no,
                total_pages |-> Len(cleaned_refs),
                full_text |-> JoinTexts([k \in 1..Len(cleaned_refs) |-> cleaned_refs[k].text]),
                pages |-> cleaned_refs] >>

NoLocals ==
    [clean_pages |-> <<>>, ref_start_idx |-> NoneInt, content_pages |-> <<>>,
     reference_pages |-> <<>>, boundaries |-> NoBoundaries]

\* lines 437-456 (and 549-550): the content and reference pages, and the
\* chapter boundaries when there is a chapter list
SplitLocals(clean_pages, ref_start_idx, chapters_meta) ==
    LET split == ref_start_idx # NoneInt /\ ref_start_idx # 0
        content_pages == IF split THEN SubSeq(clean_pages, 1, ref_start_idx) ELSE clean_pages
        reference_pages == IF split
                           THEN SubSeq(clean_pages, ref_start_idx + 1, Len(clean_pages))
                           ELSE <<>>
        chapter_titles == [k \in 1..Len(chapters_meta) |-> chapters_meta[k].title]
    IN IF clean_pages = <<>> THEN NoLocals
       ELSE [clean_pages |-> clean_pages, ref_start_idx |-> ref_start_idx,
             content_pages |-> content_pages, reference_pages |-> reference_pages,
             boundaries |-> IF chapters_meta = <<>> THEN NoBoundaries
                            ELSE detect_chapter_boundaries(content_pages, chapter_titles)]

\* lines 429-456: the values of the local variables
BuildLocals(pd, chapters_meta) ==
    LET clean_pages == filter_noise_pages(pd.pages)
    IN SplitLocals(clean_pages, find_reference_start(clean_pages), chapters_meta)

\* lines 458-539: the value returned for the local variables l
ChapterStructure(pd, chapters_meta, l) ==
    LET has_real_chapters == pd.category = "chapter"
        chs == ChapterLoop(l.content_pages, chapters_meta, l.boundaries,
                           has_real_chapters, 0, <<>>)
    IN IF l.clean_pages = <<>> \/ chapters_meta = <<>> THEN <<>>
       ELSE << [book_id |-> pd.book_id,
                category |-> pd.category,
                total_pages |-> pd.total_pages,
                extracted_pages |-> Len(l.clean_pages),
                has_chapters |-> has_real_chapters,
                total_chapters |-> IF has_real_chapters THEN Len(chs) ELSE 0,
                total_sections |-> IF has_real_chapters THEN 0 ELSE Len(chs),
                chapters |-> IF has_real_chapters THEN chs ELSE <<>>,
                sections |-> IF has_real_chapters THEN <<>> ELSE chs,
                references |-> ReferenceSection(l.reference_pages)] >>

\* the value returned: the empty list for None, a list of one structure
build_structure_with_chapters(pd, chapters_meta) ==
    ChapterStructure(pd, chapters_meta, BuildLocals(pd, chapters_meta))

\* the inputs
PageTexts == {PageA, PageB, PagePlain, PageNoise, PageRefs, PageCited}
Titles == {TitleA, TitleB, TitleC}
Categories == {"chapter", "topic"}

PagesData ==
    { [book_id |-> "book", category |-> c, total_pages |-> Len(ps),
       pages |-> [k \in 1..Len(ps) |-> [page_no |-> k, text |-> ps[k]]]] :
        c \in Categories, ps \in SeqsUpTo(PageTexts, MaxPages) }

NoPages == [book_id |-> "", category |-> "", total_pages |-> 0, pages |-> <<>>]

\* chapter lists of distinct titles, numbered from 1
ChapterLists ==
    { [k \in 1..Len(ts) |-> [chapter_number |-> k, title |-> ts[k]]] :
        ts \in { s \in SeqsUpTo(Titles, MaxChapters) :
                    /\ s # <<>>
                    /\ \A a, b \in 1..Len(s) : a # b => s[a] # s[b] } }

----------------------------------------------------------------------------
(* structure_builder.py: build_structure_fallback and process_single_book *)

\* line 542: chunk_size=20
section_size == 20

\* f"Section {n}"
SectionTitle(n) == [text |-> "Section", number |-> n]

\* lines 544-550: the values of the local variables
FallbackLocals(pd) ==
    LET clean_pages == filter_noise_pages(pd.pages)
    IN SplitLocals(clean_pages, find_reference_start(clean_pages), <<>>)

\* lines 562-570
SectionRecord(cleaned, sections) ==
    [section_number |-> Len(sections) + 1,
     title |-> SectionTitle(Len(sections) + 1),
     start_page |-> cleaned[1].page_no,
     end_page |-> cleaned[Len(cleaned)].page_no,
     total_pages |-> Len(cleaned),
     full_text |-> JoinTexts([k \in 1..Len(cleaned) |-> cleaned[k].text]),
     pages |-> cleaned]

\* the loop with the slice content_pages[i:i+size+1]: one page more
RECURSIVE SectionLoop_ExtraPage(_, _, _, _)
SectionLoop_ExtraPage(content_pages, size, i, sections) ==
    IF i >= Len(content_pages) THEN sections
    ELSE LET last == IF i + size + 1 < Len(content_pages) THEN i + size + 1
                     ELSE Len(content_pages)
             chunk == SubSeq(content_pages, i + 1, last)
             cleaned == [k \in 1..Len(chunk) |-> CleanChapterPage(chunk[k])]
         IN SectionLoop_ExtraPage(content_pages, size, i + size,
                IF chunk = <<>> THEN sections
                ELSE Append(sections, SectionRecord(cleaned, sections)))

\* lines 553-570: for i in range(0, len(content_pages), size)
RECURSIVE SectionLoop(_, _, _, _)
SectionLoop(content_pages, size, i, sections) ==
    IF i >= Len(content_pages) THEN sections
    ELSE LET last == IF i + size < Len(content_pages) THEN i + size
                     ELSE Len(content_pages)
             chunk == SubSeq(content_pages, i + 1, last)
             cleaned == [k \in 1..Len(chunk) |-> CleanChapterPage(chunk[k])]
         IN SectionLoop(content_pages, size, i + size,
                IF chunk = <<>> THEN sections
                ELSE Append(sections, SectionRecord(cleaned, sections)))

\* lines 553-598: the value returned for the local variables l
SectionStructure(pd, size, l) ==
    LET sections == SectionLoop(l.content_pages, size, 0, <<>>)
    IN IF l.clean_pages = <<>> THEN <<>>
       ELSE << [book_id |-> pd.book_id,
                category |-> pd.category,
                total_pages |-> pd.total_pages,
                extracted_pages |-> Len(l.clean_pages),
                has_chapters |-> FALSE,
                total_sections |-> Len(sections),
                sections |-> sections,
                references |-> ReferenceSection(l.reference_pages)] >>

\* the value returned: the empty list for None, a list of one structure
build_structure_fallback(pd, size) == SectionStructure(pd, size, FallbackLocals(pd))

\* line 615: chapter_info and chapter_info.get('chapters')
UsesChapters(chapters_meta) == chapters_meta # <<>>

\* lines 615-620: the structure process_single_book builds
BookStructure(pd, chapters_meta) ==
    IF UsesChapters(chapters_meta) THEN build_structure_with_chapters(pd, chapters_meta)
    ELSE build_structure_fallback(pd, section_size)

BookLocals(pd, chapters_meta) ==
    IF UsesChapters(chapters_meta) THEN BuildLocals(pd, chapters_meta)
    ELSE FallbackLocals(pd)

\* the inputs: long books of plain pages, one of them possibly a noise page
\* or a references page
LongSizes ==
    (section_size - 1)..(section_size + 1) \cup (2 * section_size)..MaxLongPages

LongTexts ==
    { [k \in 1..n |-> PagePlain] : n \in LongSizes }
    \cup { [k \in 1..n |-> IF k = at THEN special ELSE PagePlain] :
             n \in LongSizes, at \in {1, section_size, section_size + 1, MaxLongPages},
             special \in {PageNoise, PageRefs} }

Book(category, ps) ==
    [book_id |-> "book", category |-> category, total_pages |-> Len(ps),
     pages |-> [k \in 1..Len(ps) |-> [page_no |-> k, text |-> ps[k]]]]

LongBooks == { Book("topic", ps) : ps \in LongTexts }

\* a page with a running head above four prose lines and a "References"
\* heading: the heading is the sixth line, the fifth without the head
PageLateRefs ==
    <<RunningHeadB, ProseLine, ProseLine, ProseLine, ProseLine, ReferencesHead>>

HeadedBooks ==
    { Book(c, ps) : c \in Categories,
                    ps \in { <<PagePlain, PageLateRefs>>, <<PageA, PageLateRefs, PageB>> } }

\* a book with its chapter list, the empty list when it has no chapter info
BookInputs ==
    (PagesData \X (ChapterLists \cup {<<>>}))
    \cup (HeadedBooks \X (ChapterLists \cup {<<>>}))
    \cup (LongBooks \X {<<>>, <<[chapter_number |-> 1, title |-> TitleA],
                                [chapter_number |-> 2, title |-> TitleB]>>})

----------------------------------------------------------------------------
(* The batch drivers: chunker_RAG_PRODUCTION.chunk_all,
   structure_builder.process_all_books, chunking_builder.process_all_books *)

Drivers == {"chunk_all", "structure_builder", "chunking_builder"}

\* what processing one book does: it returns a result, it returns None, or
\* it raises an exception (a subclass of Exception)
Outcomes == {"result", "none", "raises"}

\* no handler around the call: the exception leaves the loop
Catches_Nothing(d) == FALSE

\* "except Exception" around the call of each driver's loop body
Catches(d) == d \in Drivers

\* "success += 1": chunk_all keeps no count
Counts(d) == d # "chunk_all"

----------------------------------------------------------------------------
(* chunking_builder.py: semantic_chunks and process_single_book.
   A section text is the number of newlines before its first sentence and
   the list of its sentences (the pieces split_sentences cuts it into); a
   sentence is its number of words, its length and whether it starts with a
   "Table N:" or "Figure N" label. *)

builder_chunk_size == 512
builder_chunk_overlap == 128
builder_min_chunk_size == 100

BSentence(words, size, marker) == [words |-> words, size |-> size, marker |-> marker]

\* 150 words
MediumSentence == BSentence(150, 900, "content")
\* 50 words
BriefSentence == BSentence(50, 300, "content")
\* "See text.": too short to be kept as a chunk of its own
TinySentence == BSentence(2, 9, "content")
\* "Table 2: Risk factors by age group ... .": 50 words
TableSentence == BSentence(50, 300, "table")

BText(lead, sentences) == [lead |-> lead, sentences |-> sentences]

\* int(len(text.split()) * 1.3) for a text of the given number of words
builder_estimate_tokens(words) == (13 * words) \div 10

\* len(" ".join(buffer))
JoinedSize(buffer) ==
    IF buffer = <<>> THEN 0
    ELSE SumOf([k \in 1..Len(buffer) |-> buffer[k].size]) + Len(buffer) - 1

JoinedWords(buffer) == SumOf([k \in 1..Len(buffer) |-> buffer[k].words])

\* len(text) of a section text
BTextSize(t) == t.lead + JoinedSize(t.sentences)

\* re.sub of three newlines and more, then strip(): the leading newlines go
clean_text(t) == BText(0, t.sentences)

\* TABLE_REGEX and FIGURE_REGEX match at the start of a line, and a chunk is
\* one line
detect_chunk_type(buffer) ==
    IF buffer # <<>> /\ buffer[1].marker = "table" THEN "table"
    ELSE IF buffer # <<>> /\ buffer[1].marker = "figure" THEN "figure"
    ELSE "content"

\* lines 92-100: the sentences kept for overlap, from the last one back
RECURSIVE BuilderOverlap(_, _, _, _, _)
BuilderOverlap(buffer, k, overlap_sentences, overlap_tokens, overlap) ==
    IF k = 0 THEN [sentences |-> overlap_sentences, tokens |-> overlap_tokens]
    ELSE LET s_tokens == builder_estimate_tokens(buffer[k].words)
         IN IF overlap_tokens + s_tokens <= overlap
            THEN BuilderOverlap(buffer, k - 1, <<buffer[k]>> \o overlap_sentences,
                                overlap_tokens + s_tokens, overlap)
            ELSE [sentences |-> overlap_sentences, tokens |-> overlap_tokens]

\* lines 83-110: the loop over the sentences and the final append
RECURSIVE SemanticLoop(_, _, _, _, _, _, _)
SemanticLoop(sentences, j, cs, buffer, current_tokens, target_size, overlap) ==
    IF j > Len(sentences)
    THEN IF buffer # <<>> THEN Append(cs, buffer) ELSE cs
    ELSE LET sentence_tokens == builder_estimate_tokens(sentences[j].words)
             flush == current_tokens + sentence_tokens > target_size /\ buffer # <<>>
             ov == BuilderOverlap(buffer, Len(buffer), <<>>, 0, overlap)
         IN IF flush
            THEN SemanticLoop(sentences, j + 1, Append(cs, buffer),
                              Append(ov.sentences, sentences[j]),
                              ov.tokens + sentence_tokens, target_size, overlap)
            ELSE SemanticLoop(sentences, j + 1, cs, Append(buffer, sentences[j]),
                              current_tokens + sentence_tokens, target_size, overlap)

\* a chunk is the list of the sentences joined by " "
semantic_chunks(t, target_size, overlap) ==
    SemanticLoop(t.sentences, 1, <<>>, <<>>, 0, target_size, overlap)

BuilderState(cs, chunk_id) == [all_chunks |-> cs, chunk_id |-> chunk_id]

\* lines 148-179 and 193-218: the chunk appended for raw chunk idx
BuilderChunk(sec, idx, chunk, chunk_id, ctype) ==
    [text |-> chunk,
     metadata |-> [chunk_id |-> chunk_id,
                   chunk_type |-> ctype,
                   chapter_title |-> sec.title,
                   chapter_number |-> sec.number,
                   page_range |-> <<sec.start_page, sec.end_page>>,
                   chunk_index |-> idx,
                   has_overlap |-> idx > 1],
     token_count |-> builder_estimate_tokens(JoinedWords(chunk)),
     char_count |-> JoinedSize(chunk)]

\* lines 148-179: for idx, chunk_text in enumerate(raw_chunks, 1)
RECURSIVE BuilderChunks(_, _, _, _, _)
BuilderChunks(sec, raw_chunks, idx, reference, st) ==
    IF idx > Len(raw_chunks) THEN st
    ELSE IF JoinedSize(raw_chunks[idx]) < builder_min_chunk_size
         THEN BuilderChunks(sec, raw_chunks, idx + 1, reference, st)
         ELSE BuilderChunks(sec, raw_chunks, idx + 1, reference,
                  BuilderState(
                      Append(st.all_chunks,
                             BuilderChunk(sec, idx, raw_chunks[idx], st.chunk_id,
                                          IF reference THEN "reference"
                                          ELSE detect_chunk_type(raw_chunks[idx]))),
                      st.chunk_id + 1))

\* lines 131-179: one section; lines 184-218: the references section
BuilderSection(sec, reference, st) ==
    LET t == clean_text(sec.full_text)
    IN IF t.sentences = <<>> \/ BTextSize(t) < builder_min_chunk_size THEN st
       ELSE BuilderChunks(sec,
                semantic_chunks(t, builder_chunk_size, builder_chunk_overlap),
                1, reference, st)

RECURSIVE BuilderSectionLoop(_, _, _)
BuilderSectionLoop(sections, k, st) ==
    IF k > Len(sections) THEN st
    ELSE BuilderSectionLoop(sections, k + 1, BuilderSection(sections[k], FALSE, st))

\* lines 124-218: all_chunks when the loops are over
builder_all_chunks(s) ==
    LET st == BuilderSectionLoop(s.sections, 1, BuilderState(<<>>, 1))
    IN IF s.references = <<>> THEN st.all_chunks
       ELSE BuilderSection(s.references[1], TRUE, st).all_chunks

\* lines 238-247: the document written
BuilderOutput(s, cs) ==
    [book_name |-> s.book_name, category |-> s.category,
     total_chunks |-> Len(cs), chunks |-> cs]

\* the inputs
BuilderTexts ==
    { BText(0, <<MediumSentence, MediumSentence, MediumSentence, BriefSentence>>),
      BText(0, <<BriefSentence, BriefSentence>>),
      BText(2, <<TableSentence, MediumSentence, MediumSentence, MediumSentence,
                 TinySentence>>),
      BText(0, <<MediumSentence, MediumSentence, MediumSentence, TinySentence,
                 MediumSentence, MediumSentence, MediumSentence>>),
      BText(0, <<TinySentence>>),
      BText(0, <<>>) }

BuilderSections ==
    { [k \in 1..Len(ts) |->
          [number |-> k, title |-> k, start_page |-> k, end_page |-> k,
           full_text |-> ts[k]]] : ts \in SeqsUpTo(BuilderTexts, MaxSections) }

NoBuilderStructure ==
    [book_name |-> "", category |-> "", sections |-> <<>>, references |-> <<>>]

BuilderStructures ==
    { [book_name |-> "book", category |-> "chapter", sections |-> secs,
       references |-> refs] :
        secs \in BuilderSections,
        refs \in { <<>> } \cup
                 { << [number |-> NoneInt, title |-> 0, start_page |-> 9,
                       end_page |-> 9, full_text |-> t] >> :
                     t \in { BText(0, <<BriefSentence, BriefSentence>>),
                             BText(0, <<MediumSentence, MediumSentence,
                                        MediumSentence, BriefSentence>>) } } }

----------------------------------------------------------------------------
(* Values of the variables a specification does not use *)

ChunkIdle == text = <<>> /\ pc = "idle" /\ clean = <<>> /\ chunks = <<>> /\ flushes = <<>>
TableIdle == tlines = <<>> /\ tpc = "idle" /\ first = NoTables /\ second = NoTables

IdIdle == digest = <<>> /\ ids = <<>> /\ builderIds = <<>>
FileIdle ==
    /\ structure = NoStructure /\ fpc = "idle" /\ fitem = 0 /\ all_chunks = <<>>
    /\ gidx = 0 /\ written = <<>>
StructIdle ==
    /\ pages_data = NoPages /\ chapter_info = <<>> /\ spc = "idle"
    /\ results = <<>> /\ locals = NoLocals

BookIdle ==
    /\ book = NoPages /\ book_chapters = <<>> /\ bpc = "idle" /\ saved = <<>>
    /\ blocals = NoLocals

BatchIdle ==
    /\ driver = "" /\ books = <<>> /\ bidx = 0 /\ attempts = <<>> /\ success = 0
    /\ dpc = "idle"

CbIdle == cstructure = NoBuilderStructure /\ cpc = "idle" /\ coutput = <<>>

StripIdle == rtext = <<>> /\ rpc = "idle" /\ rstripped = <<>> /\ rrestripped = <<>>

ScoreIdle == ntext = <<>> /\ npc = "idle" /\ noise_score = [num |-> 0, den |-> 1]
SplitIdle == alines = <<>> /\ achunk = <<>> /\ astack = <<>> /\ aresult = <<>>

IdleButChunk == TableIdle /\ IdIdle /\ FileIdle /\ StructIdle /\ BookIdle /\ BatchIdle /\ CbIdle /\ StripIdle /\ ScoreIdle /\ SplitIdle
IdleButTables == ChunkIdle /\ IdIdle /\ FileIdle /\ StructIdle /\ BookIdle /\ BatchIdle /\ CbIdle /\ StripIdle /\ ScoreIdle /\ SplitIdle
IdleButId == ChunkIdle /\ TableIdle /\ FileIdle /\ StructIdle /\ BookIdle /\ BatchIdle /\ CbIdle /\ StripIdle /\ ScoreIdle /\ SplitIdle
IdleButFile == ChunkIdle /\ TableIdle /\ IdIdle /\ StructIdle /\ BookIdle /\ BatchIdle /\ CbIdle /\ StripIdle /\ ScoreIdle /\ SplitIdle
IdleButStruct == ChunkIdle /\ TableIdle /\ IdIdle /\ FileIdle /\ BookIdle /\ BatchIdle /\ CbIdle /\ StripIdle /\ ScoreIdle /\ SplitIdle
IdleButBook == ChunkIdle /\ TableIdle /\ IdIdle /\ FileIdle /\ StructIdle /\ BatchIdle /\ CbIdle /\ StripIdle /\ ScoreIdle /\ SplitIdle
IdleButBatch == ChunkIdle /\ TableIdle /\ IdIdle /\ FileIdle /\ StructIdle /\ BookIdle /\ CbIdle /\ StripIdle /\ ScoreIdle /\ SplitIdle
IdleButCb == ChunkIdle /\ TableIdle /\ IdIdle /\ FileIdle /\ StructIdle /\ BookIdle /\ BatchIdle /\ StripIdle /\ ScoreIdle /\ SplitIdle
IdleButStrip == ChunkIdle /\ TableIdle /\ IdIdle /\ FileIdle /\ StructIdle /\ BookIdle /\ BatchIdle /\ CbIdle /\ ScoreIdle /\ SplitIdle
IdleButScore == ChunkIdle /\ TableIdle /\ IdIdle /\ FileIdle /\ StructIdle /\ BookIdle /\ BatchIdle /\ CbIdle /\ StripIdle /\ SplitIdle
IdleButSplit == ChunkIdle /\ TableIdle /\ IdIdle /\ FileIdle /\ StructIdle /\ BookIdle /\ BatchIdle /\ CbIdle /\ StripIdle /\ ScoreIdle

----------------------------------------------------------------------------
(* chunk_text, phase by phase, on every text of at most MaxLines lines *)

InitChunk ==
    /\ text \in SeqsUpTo(ChunkLines, MaxLines)
    /\ pc = "start"
    /\ clean = <<>>
    /\ chunks = <<>>
    /\ flushes = <<>>
    /\ IdleButChunk

\* line 274-277
RemoveNoise ==
    /\ pc = "start"
    /\ clean' = remove_noise(text, AllLines(text))
    /\ pc' = IF TooSmall(clean') THEN "done" ELSE "clean"
    /\ UNCHANGED <<text, chunks, flushes, notChunkVars>>

\* lines 279-335
PackText ==
    /\ pc = "clean"
    /\ LET st == Pack(clean, text)
       IN chunks' = st.chunks /\ flushes' = st.flushes
    /\ pc' = "packed"
    /\ UNCHANGED <<text, clean, notChunkVars>>

\* lines 337-344
SplitOversized ==
    /\ pc = "packed"
    /\ chunks' = SplitAll(chunks, text, 1)
    /\ pc' = "split"
    /\ UNCHANGED <<text, clean, flushes, notChunkVars>>

\* lines 346-349
MergeSmall ==
    /\ pc = "split"
    /\ chunks' = merge_small_chunks(chunks)
    /\ pc' = "done"
    /\ UNCHANGED <<text, clean, flushes, notChunkVars>>

NextChunk == RemoveNoise \/ PackText \/ SplitOversized \/ MergeSmall

SpecChunk == InitChunk /\ [][NextChunk]_vars

----------------------------------------------------------------------------
(* detect_tables on every text of at most MaxTableLines lines, and again on
   the clean text it returned *)

InitTables ==
    /\ tlines \in SeqsUpTo(TableLines, MaxTableLines)
    /\ tpc = "start"
    /\ first = NoTables
    /\ second = NoTables
    /\ IdleButTables

Detect ==
    /\ tpc = "start"
    /\ first' = detect_tables(tlines, AllLines(tlines))
    /\ tpc' = "once"
    /\ UNCHANGED <<tlines, second, notTableVars>>

DetectAgain ==
    /\ tpc = "once"
    /\ second' = detect_tables(tlines, first.clean)
    /\ tpc' = "twice"
    /\ UNCHANGED <<tlines, first, notTableVars>>

NextTables == Detect \/ DetectAgain

SpecTables == InitTables /\ [][NextTables]_vars

----------------------------------------------------------------------------
(* generate_book_id called on a name: twice through the chunker's
   implementation, once through the builder's *)

InitId ==
    /\ digest \in Digests
    /\ ids = <<>>
    /\ builderIds = <<>>
    /\ IdleButId

CallChunkerId ==
    /\ Len(ids) < 2
    /\ ids' = Append(ids, generate_book_id(digest))
    /\ UNCHANGED <<digest, builderIds, notIdVars>>

CallBuilderId ==
    /\ Len(builderIds) < 1
    /\ builderIds' = Append(builderIds, builder_generate_book_id(digest))
    /\ UNCHANGED <<digest, ids, notIdVars>>

NextId == CallChunkerId \/ CallBuilderId

SpecId == InitId /\ [][NextId]_vars

----------------------------------------------------------------------------
(* chunk_structure_file on a structure file *)

InitFile ==
    /\ structure \in Structures
    /\ fpc = "open"
    /\ fitem = 0
    /\ all_chunks = <<>>
    /\ gidx = 0
    /\ written = <<>>
    /\ IdleButFile

\* lines 410-425
OpenStructure ==
    /\ fpc = "open"
    /\ fpc' = IF Items(structure) = <<>> THEN "done" ELSE "loop"
    /\ UNCHANGED <<structure, fitem, all_chunks, gidx, written, notFileVars>>

\* lines 427-472: one iteration of the loop over the items
ProcessItem ==
    /\ fpc = "loop"
    /\ fitem < Len(Items(structure))
    /\ LET fs == ProcessItemBody(structure, generate_book_id(structure.book_id),
                                 fitem + 1, FileState(all_chunks, gidx))
       IN all_chunks' = fs.all_chunks /\ gidx' = fs.gidx
    /\ fitem' = fitem + 1
    /\ UNCHANGED <<structure, fpc, written, notFileVars>>

\* lines 474-515
WriteOutput ==
    /\ fpc = "loop"
    /\ fitem = Len(Items(structure))
    /\ written' = IF all_chunks = <<>> THEN written
                  ELSE Append(written, Output(structure,
                                  generate_book_id(structure.book_id), all_chunks))
    /\ fpc' = "done"
    /\ UNCHANGED <<structure, fitem, all_chunks, gidx, notFileVars>>

NextFile == OpenStructure \/ ProcessItem \/ WriteOutput

SpecFile == InitFile /\ [][NextFile]_vars

----------------------------------------------------------------------------
(* chunk_text on a chapter of three paragraphs of 130, 140 and 90 estimated
   tokens separated by blank lines, each paragraph cut into sentences *)

\* a paragraph of size characters as n sentence lines: the first n - 1 of
\* equal length, the last taking the rest (the lines are joined by "\n")
Paragraph(size, n) ==
    LET each == (size - (n - 1)) \div n
    IN [k \in 1..n |->
          IF k < n THEN Sentence(each) ELSE Sentence(size - (n - 1) - (n - 1) * each)]

\* the characters of a paragraph of tok estimated tokens: 4 tok .. 4 tok + 3
ParagraphChars(tok) == { 4 * tok, 4 * tok + 3 }

ThreeParagraphTexts ==
    { Paragraph(c1, n1) \o <<BlankLine>> \o Paragraph(c2, n2) \o <<BlankLine>>
          \o Paragraph(c3, n3) :
        c1 \in ParagraphChars(130), c2 \in ParagraphChars(140),
        c3 \in ParagraphChars(90),
        n1 \in 1..MaxParaSentences, n2 \in 1..MaxParaSentences,
        n3 \in 1..MaxParaSentences }

InitPara ==
    /\ text \in ThreeParagraphTexts
    /\ pc = "start"
    /\ clean = <<>>
    /\ chunks = <<>>
    /\ flushes = <<>>
    /\ IdleButChunk

SpecPara == InitPara /\ [][NextChunk]_vars

----------------------------------------------------------------------------
(* build_structure_with_chapters called on the pages of a book, then called
   again on the same pages *)

InitStruct ==
    /\ pages_data \in PagesData
    /\ chapter_info \in ChapterLists
    /\ spc = "loaded"
    /\ results = <<>>
    /\ locals = NoLocals
    /\ IdleButStruct

BuildWithChapters ==
    /\ Len(results) < MaxBuilds
    /\ results' = Append(results, build_structure_with_chapters(pages_data, chapter_info))
    /\ locals' = BuildLocals(pages_data, chapter_info)
    /\ spc' = "built"
    /\ UNCHANGED <<pages_data, chapter_info, notStructVars>>

NextStruct == BuildWithChapters

SpecStruct == InitStruct /\ [][NextStruct]_vars

----------------------------------------------------------------------------
(* process_single_book on the pages document of one book *)

InitBook ==
    /\ \E b \in BookInputs : book = b[1] /\ book_chapters = b[2]
    /\ bpc = "start"
    /\ saved = <<>>
    /\ blocals = NoLocals
    /\ IdleButBook

\* lines 615-626: the structure is built and written
SaveStructure ==
    /\ bpc = "start"
    /\ BookStructure(book, book_chapters) # <<>>
    /\ saved' = BookStructure(book, book_chapters)
    /\ blocals' = BookLocals(book, book_chapters)
    /\ bpc' = "saved"
    /\ UNCHANGED <<book, book_chapters, notBookVars>>

\* lines 622-624: no structure, nothing is written
FailBook ==
    /\ bpc = "start"
    /\ BookStructure(book, book_chapters) = <<>>
    /\ bpc' = "failed"
    /\ UNCHANGED <<book, book_chapters, saved, blocals, notBookVars>>

NextBook == SaveStructure \/ FailBook

SpecBook == InitBook /\ [][NextBook]_vars

----------------------------------------------------------------------------
(* A batch driver run over a list of books *)

InitBatch ==
    /\ driver \in Drivers
    /\ books \in SeqsUpTo(Outcomes, MaxBooks)
    /\ bidx = 0
    /\ attempts = <<>>
    /\ success = 0
    /\ dpc = "run"
    /\ IdleButBatch

\* the book is processed and a result comes back
BookDone ==
    /\ dpc = "run" /\ bidx < Len(books)
    /\ books[bidx + 1] = "result"
    /\ attempts' = Append(attempts, bidx + 1)
    /\ success' = IF Counts(driver) THEN success + 1 ELSE success
    /\ bidx' = bidx + 1
    /\ UNCHANGED <<driver, books, dpc, notBatchVars>>

\* the book is processed and None comes back
BookNone ==
    /\ dpc = "run" /\ bidx < Len(books)
    /\ books[bidx + 1] = "none"
    /\ attempts' = Append(attempts, bidx + 1)
    /\ bidx' = bidx + 1
    /\ UNCHANGED <<driver, books, success, dpc, notBatchVars>>

\* processing the book raises: the handler logs it and the loop goes on
BookRaises ==
    /\ dpc = "run" /\ bidx < Len(books)
    /\ books[bidx + 1] = "raises"
    /\ attempts' = Append(attempts, bidx + 1)
    /\ IF Catches(driver)
       THEN bidx' = bidx + 1 /\ dpc' = dpc
       ELSE bidx' = bidx /\ dpc' = "aborted"
    /\ UNCHANGED <<driver, books, success, notBatchVars>>

\* the loop is over: the summary is printed and the driver returns
DriverReturns ==
    /\ dpc = "run" /\ bidx = Len(books)
    /\ dpc' = "done"
    /\ UNCHANGED <<driver, books, bidx, attempts, success, notBatchVars>>

NextBatch == BookDone \/ BookNone \/ BookRaises \/ DriverReturns

SpecBatch == InitBatch /\ [][NextBatch]_vars

----------------------------------------------------------------------------
(* chunking_builder.process_single_book on one structure document *)

InitCb ==
    /\ cstructure \in BuilderStructures
    /\ cpc = "start"
    /\ coutput = <<>>
    /\ IdleButCb

\* lines 224-251: the chunks are written
SaveChunks ==
    /\ cpc = "start"
    /\ builder_all_chunks(cstructure) # <<>>
    /\ coutput' = <<BuilderOutput(cstructure, builder_all_chunks(cstructure))>>
    /\ cpc' = "saved"
    /\ UNCHANGED <<cstructure, notCbVars>>

\* lines 220-222: no chunks, nothing is written
NoChunks ==
    /\ cpc = "start"
    /\ builder_all_chunks(cstructure) = <<>>
    /\ cpc' = "none"
    /\ UNCHANGED <<cstructure, coutput, notCbVars>>

NextCb == SaveChunks \/ NoChunks

SpecCb == InitCb /\ [][NextCb]_vars

----------------------------------------------------------------------------
(* chunk_text on texts of short, medium and long sentences, one a line, so
   that a flush carries zero, one or two sentences forward *)

\* sentences of 30, 80 and 325 estimated tokens
OverlapLines == { Sentence(120), Sentence(320), Sentence(1300) }

InitOverlap ==
    /\ text \in SeqsUpTo(OverlapLines, MaxLines)
    /\ pc = "start"
    /\ clean = <<>>
    /\ chunks = <<>>
    /\ flushes = <<>>
    /\ IdleButChunk

SpecOverlap == InitOverlap /\ [][NextChunk]_vars

----------------------------------------------------------------------------
(* strip_all_references on every text of at most MaxTextLines lines, and
   again on the text it returned *)

\* the inputs: prose, citations, a "References" heading and empty lines
StripLines == { ProseLine, Citation, ReferencesHead, EmptyLine }

InitStrip ==
    /\ rtext \in SeqsUpTo(StripLines, MaxTextLines)
    /\ rpc = "start"
    /\ rstripped = <<>>
    /\ rrestripped = <<>>
    /\ IdleButStrip

StripReferences ==
    /\ rpc = "start"
    /\ rstripped' = strip_all_references(rtext)
    /\ rpc' = "once"
    /\ UNCHANGED <<rtext, rrestripped, notStripVars>>

StripAgain ==
    /\ rpc = "once"
    /\ rrestripped' = strip_all_references(rstripped)
    /\ rpc' = "twice"
    /\ UNCHANGED <<rtext, rstripped, notStripVars>>

NextStrip == StripReferences \/ StripAgain

SpecStrip == InitStrip /\ [][NextStrip]_vars

----------------------------------------------------------------------------
(* calculate_noise_score on every page text of at most MaxTextLines lines *)

\* the inputs: prose, boilerplate and empty lines
ScoreLines == { ProseLine, ShortProse, CopyrightLine, IsbnLine, EmptyLine }

InitScore ==
    /\ ntext \in SeqsUpTo(ScoreLines, MaxTextLines)
    /\ npc = "start"
    /\ noise_score = [num |-> 0, den |-> 1]
    /\ IdleButScore

ScorePage ==
    /\ npc = "start"
    /\ noise_score' = calculate_noise_score(ntext)
    /\ npc' = "scored"
    /\ UNCHANGED <<ntext, notScoreVars>>

NextScore == ScorePage

SpecScore == InitScore /\ [][NextScore]_vars

----------------------------------------------------------------------------
(* auto_split_oversized, call by call, on every chunk of at most MaxUnits
   units joined by single spaces *)

\* n characters that start with a capital letter and end without . ! or ?
Clause(n) == Line(n, TRUE, FALSE, FALSE, FALSE, "", 0, 0, 0, FALSE)

\* the units: sentences of 80, 325 and 850 estimated tokens, and a clause
\* followed by the characters "<DOT>"
SplitUnits ==
    { [line |-> Sentence(320), dot |-> FALSE], [line |-> Sentence(1300), dot |-> FALSE],
      [line |-> Sentence(3400), dot |-> FALSE], [line |-> Clause(300), dot |-> TRUE] }

\* the chunk the units make
UnitsText(us) ==
    Join([k \in 1..Len(us) |->
            <<[u |-> k, a |-> 0, b |-> us[k].line.len]>>
                \o (IF us[k].dot THEN <<DotMark>> ELSE <<>>)],
         Space)

\* a call: its argument, the number of calls it is nested in, and the number
\* of sentences of the chunk of the call that made it (NoneInt: outermost)
Call(chunk, depth, caller) == [chunk |-> chunk, depth |-> depth, caller |-> caller]

InitSplit ==
    /\ \E us \in SeqsUpTo(SplitUnits, MaxUnits) :
          /\ alines = [k \in 1..Len(us) |-> us[k].line]
          /\ achunk = UnitsText(us)
    /\ astack = <<Call(achunk, 0, NoneInt)>>
    /\ aresult = <<>>
    /\ IdleButSplit

\* lines 207-210
ReturnWhole ==
    /\ astack # <<>>
    /\ LET chunk == Head(astack).chunk
       IN /\ estimate_tokens(chunk) <= max_chunk_size
          /\ aresult' = Append(aresult, chunk)
    /\ astack' = Tail(astack)
    /\ UNCHANGED <<alines, achunk, notSplitVars>>

\* lines 212-216
SplitInHalves ==
    /\ astack # <<>>
    /\ LET chunk == Head(astack).chunk
           mid == StrLen(chunk) \div 2
       IN /\ estimate_tokens(chunk) > max_chunk_size
          /\ Len(split_sentences(chunk, alines)) <= 1
          /\ aresult' = aresult \o <<Prefix(chunk, mid), Suffix(chunk, mid)>>
    /\ astack' = Tail(astack)
    /\ UNCHANGED <<alines, achunk, notSplitVars>>

\* lines 218-224: the two calls the call makes, the one for part1 first
Recurse ==
    /\ astack # <<>>
    /\ LET call == Head(astack)
           sentences == split_sentences(call.chunk, alines)
           mid == Len(sentences) \div 2
           part1 == Join(SubSeq(sentences, 1, mid), Space)
           part2 == Join(SubSeq(sentences, mid + 1, Len(sentences)), Space)
       IN /\ estimate_tokens(call.chunk) > max_chunk_size
          /\ Len(sentences) > 1
          /\ astack' = <<Call(part1, call.depth + 1, Len(sentences)),
                         Call(part2, call.depth + 1, Len(sentences))>>
                          \o Tail(astack)
    /\ UNCHANGED <<alines, achunk, aresult, notSplitVars>>

NextSplit == ReturnWhole \/ SplitInHalves \/ Recurse

SpecSplit == InitSplit /\ [][NextSplit]_vars

----------------------------------------------------------------------------
(* Properties of chunk_text *)

\* C1: every chunk chunk_text returns has at most max_chunk_size estimated
\* tokens (len // 4), unless it is the only chunk returned.
C1_ChunksWithinMax ==
    pc = "done" =>
        \A k \in 1..Len(chunks) :
            estimate_tokens(chunks[k]) <= max_chunk_size \/ Len(chunks) = 1

\* the characters of a string that are not whitespace, as line slices
ContentItems(s) == SelectSeq(s, LAMBDA it : ~IsWs(it))

RECURSIVE Concat(_)
Concat(cs) == IF cs = <<>> THEN <<>> ELSE Head(cs) \o Concat(Tail(cs))

RECURSIVE WithoutOverlap(_, _)
\* the slices of items read in order, a slice that lies before the furthest
\* character read so far (inserted overlap) ignored and a slice that continues
\* the last one joined to it
WithoutOverlap(items, acc) ==
    IF items = <<>> THEN acc
    ELSE LET it == Head(items)
             last == acc[Len(acc)]
         IN IF acc = <<>> THEN WithoutOverlap(Tail(items), <<it>>)
            ELSE IF it.u < last.u \/ (it.u = last.u /\ it.b <= last.b)
                 THEN WithoutOverlap(Tail(items), acc)
            ELSE IF it.u = last.u /\ it.a = last.b
                 THEN WithoutOverlap(Tail(items), [acc EXCEPT ![Len(acc)].b = it.b])
            ELSE WithoutOverlap(Tail(items), Append(acc, it))

C18_SplitPiecesWithinMax ==
    pc = "split" =>
        \A k \in 1..Len(chunks) : estimate_tokens(chunks[k]) <= max_chunk_size

\* C19: every chunk merge_small_chunks returns has at least min_chunk_size
\* estimated tokens, unless it returns a single chunk: once the merge pass
\* of chunk_text has run, no chunk of a result of two chunks or more is
\* under min_chunk_size.
C19_MergedAtLeastMin ==
    (pc = "done" /\ ~TooSmall(clean)) =>
        \A k \in 1..Len(chunks) :
            estimate_tokens(chunks[k]) >= min_chunk_size \/ Len(chunks) = 1

RECURSIVE SplitAtSpace(_, _)
\* the units (sentences or whole paragraphs) " ".join put into a packed chunk
SplitAtSpace(s, cur) ==
    IF s = <<>> THEN <<cur>>
    ELSE IF Head(s) = Space THEN <<cur>> \o SplitAtSpace(Tail(s), <<>>)
    ELSE SplitAtSpace(Tail(s), Append(cur, Head(s)))

PackedUnits(chunk) == SplitAtSpace(chunk, <<>>)

\* C20 as stated: every chunk the packing phase of chunk_text emits (before
\* splitting and merging) has a summed sentence token estimate of at most
\* chunk_size, unless it consists of a single sentence.
C20_PackedWithinTarget ==
    pc = "packed" =>
        \A k \in 1..Len(chunks) :
            \/ SumTokens(PackedUnits(chunks[k])) <= chunk_size
            \/ Len(PackedUnits(chunks[k])) = 1

\* the sentences of chunk k but the last are the end of chunk k - 1, carried
\* over as overlap, and have at most chunk_overlap tokens together
OverlapThenOne(k) ==
    /\ k > 1
    /\ LET us == PackedUnits(chunks[k])
           prev == PackedUnits(chunks[k - 1])
           ov == SubSeq(us, 1, Len(us) - 1)
       IN /\ Len(ov) <= Len(prev)
          /\ SubSeq(prev, Len(prev) - Len(ov) + 1, Len(prev)) = ov
          /\ SumTokens(ov) <= chunk_overlap

\* C20 amended: every chunk the packing phase emits has a summed sentence
\* token estimate of at most chunk_size, unless it consists of a single
\* sentence or of the overlap carried over from the chunk before it (at most
\* chunk_overlap tokens) followed by a single sentence.
C20_PackedWithinTargetOrOverlap ==
    pc = "packed" =>
        \A k \in 1..Len(chunks) :
            \/ SumTokens(PackedUnits(chunks[k])) <= chunk_size
            \/ Len(PackedUnits(chunks[k])) = 1
            \/ OverlapThenOne(k)

\* a packing that flushed a buffer of two sentences within the target and
\* emitted a chunk of carried overlap and one sentence over the target
C20_Witness ==
    /\ pc = "packed"
    /\ \E k \in 1..Len(chunks) :
          /\ Len(PackedUnits(chunks[k])) >= 2
          /\ SumTokens(PackedUnits(chunks[k])) <= chunk_size
    /\ \E k \in 1..Len(chunks) :
          /\ Len(PackedUnits(chunks[k])) >= 2
          /\ SumTokens(PackedUnits(chunks[k])) > chunk_size
          /\ OverlapThenOne(k)

----------------------------------------------------------------------------
(* Properties of detect_tables *)

\* C4: table extraction is idempotent: detect_tables on the clean text that
\* detect_tables returned finds no table.
C4_Idempotent == tpc = "twice" => second.tables = <<>>

\* the first run extracted a table and left a single table-like line in the
\* clean text, and the second run has been made
C4_Witness ==
    /\ tpc = "twice"
    /\ first.tables # <<>>
    /\ Cardinality({k \in 1..Len(first.clean) : IsTableLine(tlines[first.clean[k]])}) >= 1

\* C22: a table's reference is set only if a "Table N.N" reference line
\* stands immediately before the table's first row; a reference line with
\* other lines between it and the run is not attached to the table.
C22_ReferenceImmediatelyBefore ==
    tpc = "once" =>
        \A k \in 1..Len(first.tables) :
            first.tables[k].reference # None =>
                LET r == first.tables[k].rows[1]
                IN /\ r > 1
                   /\ tlines[r - 1].ref = first.tables[k].reference

RECURSIVE SkippedReference(_, _)
\* line i of t is a "Table N.N" reference line met outside a table run, which
\* detect_tables skips (lines 100-103); a run is open after a table-like line
\* that was not skipped
SkippedReference(t, i) ==
    /\ t[i].ref # ""
    /\ ~(i > 1 /\ IsTableLine(t[i - 1]) /\ ~SkippedReference(t, i - 1))

\* the number of times line i is in the clean text or in an extracted table
Occurrences(res, i) ==
    Cardinality({k \in 1..Len(res.clean) : res.clean[k] = i})
    + SumOf([k \in 1..Len(res.tables) |->
                Cardinality({j \in 1..Len(res.tables[k].rows) :
                                res.tables[k].rows[j] = i})])

\* C27: detect_tables conserves lines: every line that is not a skipped
\* reference line is exactly once in an extracted table or in the clean text,
\* in the original order; no line is lost.
C27_LinesConserved ==
    tpc = "once" =>
        /\ \A i \in 1..Len(tlines) :
              Occurrences(first, i) = IF SkippedReference(tlines, i) THEN 0 ELSE 1
        /\ \A a, b \in 1..Len(first.clean) : a < b => first.clean[a] < first.clean[b]
        /\ \A k \in 1..Len(first.tables) :
              \A a, b \in 1..Len(first.tables[k].rows) :
                  a < b => first.tables[k].rows[a] < first.tables[k].rows[b]

----------------------------------------------------------------------------
(* Properties of generate_book_id *)

Alphabet == { chars[k] : k \in 1..Len(chars) }

\* C6: every identifier generate_book_id returns for a digest has exactly 21
\* characters, all of the 62-character alphabet; two calls on the same name
\* return the same identifier, and the chunker's and the builder's
\* implementations return the same identifier.
C6_BookId ==
    /\ \A k \in 1..Len(ids) :
          /\ Len(ids[k]) = IdLength
          /\ \A j \in 1..Len(ids[k]) : ids[k][j] \in Alphabet
    /\ \A k \in 1..Len(builderIds) :
          /\ Len(builderIds[k]) = IdLength
          /\ \A j \in 1..Len(builderIds[k]) : builderIds[k][j] \in Alphabet
    /\ \A j, k \in 1..Len(ids) : ids[j] = ids[k]
    /\ \A j \in 1..Len(ids) : \A k \in 1..Len(builderIds) : ids[j] = builderIds[k]

\* both implementations have run, the chunker's twice, on a digest whose bytes
\* differ and reach past the alphabet size
C6_Witness ==
    /\ Len(ids) = 2
    /\ Len(builderIds) = 1
    /\ \E k \in 1..IdLength : digest[k] >= Len(chars)
    /\ \E j, k \in 1..IdLength : ids[1][j] # ids[1][k]

----------------------------------------------------------------------------
(* Properties of chunk_structure_file *)

\* the positions in all_chunks of the chunks of the chapter/section at item
ChunksOf(item) == { k \in 1..Len(all_chunks) : all_chunks[k].metadata.item = item }
TextChunksOf(item) ==
    { k \in ChunksOf(item) : all_chunks[k].metadata.chunk_type = "text" }

C7_ChunkIndex ==
    /\ \A j, k \in 1..Len(all_chunks) :
          j < k => all_chunks[j].metadata.chunk_index < all_chunks[k].metadata.chunk_index
    /\ \A k \in 1..Len(all_chunks) :
          all_chunks[k].metadata.chunk_id
              = ChunkId(generate_book_id(structure.book_id),
                        all_chunks[k].metadata.chunk_index)
    /\ \A j, k \in 1..Len(all_chunks) :
          j # k => all_chunks[j].metadata.chunk_id # all_chunks[k].metadata.chunk_id

\* the file is written with table and text chunks of two chapters/sections
C7_Witness ==
    /\ fpc = "done"
    /\ written # <<>>
    /\ \E j, k \in 1..Len(all_chunks) :
          /\ all_chunks[j].metadata.item # all_chunks[k].metadata.item
          /\ all_chunks[j].metadata.chunk_type = "table"
          /\ all_chunks[k].metadata.chunk_type = "table"
    /\ \E k \in 1..Len(all_chunks) : all_chunks[k].metadata.chunk_type = "text"

\* the lines of the full_text t at positions p+1..p+r are a run of r >= 2
\* tab-separated rows right after a "Table N.N" caption line at p, and a line
\* that is no table line follows the run
CaptionedRun(t, p, r) ==
    /\ p >= 1 /\ r >= 2 /\ p + r < Len(t)
    /\ t[p].ref # "" /\ ~IsTableLine(t[p])
    /\ \A q \in (p + 1)..(p + r) : t[q].tabs >= 2 /\ t[q].ref = ""
    /\ ~IsTableLine(t[p + r + 1])

\* the lines of the chunk at position k of all_chunks, as indexes of full_text
LinesOfChunk(k) ==
    LET its == ContentItems(all_chunks[k].text)
    IN { its[j].u : j \in 1..Len(its) }

\* C9: for a chapter (of at least 500 characters, so that it is chunked) whose
\* text has a "Table N.N" caption line followed by r >= 2 tab-separated rows
\* and then a non-table line, exactly one table chunk holds that run, its
\* table_reference is the caption's "Table N.N" label and it has r rows, and
\* no text chunk holds any of the rows.
C9_CaptionedTable ==
    fpc = "done" =>
        \A item \in 1..Len(Items(structure)) :
            LET t == Items(structure)[item].full_text
            IN \A p \in 1..Len(t) : \A r \in 2..Len(t) :
                (CaptionedRun(t, p, r) /\ ~SkipItem(t)) =>
                    /\ Cardinality({ k \in ChunksOf(item) :
                           /\ all_chunks[k].metadata.chunk_type = "table"
                           /\ LinesOfChunk(k) = (p + 1)..(p + r)
                           /\ all_chunks[k].metadata.table_reference = t[p].ref }) = 1
                    /\ \A k \in TextChunksOf(item) :
                           LinesOfChunk(k) \cap ((p + 1)..(p + r)) = {}

----------------------------------------------------------------------------
(* Properties of chunk_text on the three-paragraph chapter *)

\* C8: a chapter of three blank-line-separated paragraphs of 130, 140 and 90
\* estimated tokens comes back from chunk_text as exactly one chunk that holds
\* all three paragraphs.
C8_OneChunk ==
    pc = "done" =>
        /\ Len(chunks) = 1
        /\ ContentItems(chunks[1]) = ContentItems(clean)

----------------------------------------------------------------------------
(* Properties of build_structure_with_chapters *)

\* C5: the start page indices detect_chapter_boundaries returns, listed in
\* chapter order, are non-decreasing.
C5_MonotoneBoundaries ==
    spc = "built" =>
        \A c1, c2 \in DOMAIN locals.boundaries :
            c1 < c2 => locals.boundaries[c1] <= locals.boundaries[c2]

\* the chapters or sections of a returned structure
Emitted(r) == r.chapters \o r.sections

LowNoise(pages) ==
    { i \in 1..Len(pages) :
        LET score == calculate_noise_score(pages[i].text)
        IN 10 * score.num <= 4 * score.den }

\* C12: the pages filter_noise_pages returns are exactly the input pages
\* whose noise score does not exceed 0.4, in input order, and the call
\* leaves the input pages as they were.
C12_FilterPure ==
    /\ [](spc = "built" =>
            \E f \in [1..Len(locals.clean_pages) -> 1..Len(pages_data.pages)] :
                /\ \A a, b \in DOMAIN f : a < b => f[a] < f[b]
                /\ { f[a] : a \in DOMAIN f } = LowNoise(pages_data.pages)
                /\ \A a \in DOMAIN f : locals.clean_pages[a] = pages_data.pages[f[a]])
    /\ [][pages_data' = pages_data]_vars

C12_Witness ==
    /\ spc = "built"
    /\ Len(locals.clean_pages) >= 2
    /\ Len(locals.clean_pages) < Len(pages_data.pages)
    /\ locals.clean_pages[1] # locals.clean_pages[2]
    /\ is_noise_page(pages_data.pages[1])

\* C13: when k is the lowest index of a clean page detected as a reference
\* section (k = 0 included), the content pages are the clean pages before k
\* and the reference pages those from k on; when no page is detected, every
\* clean page is content and there are no reference pages.
C13_ReferenceSplit ==
    (spc = "built" /\ locals.clean_pages # <<>>) =>
        LET clean_pages == locals.clean_pages
            detected == { i \in 0..Len(clean_pages) - 1 :
                            is_reference_section(clean_pages[i + 1].text) }
        IN IF detected = {}
           THEN /\ locals.content_pages = clean_pages
                /\ locals.reference_pages = <<>>
           ELSE LET k == CHOOSE i \in detected : \A j \in detected : i <= j
                IN /\ locals.content_pages = SubSeq(clean_pages, 1, k)
                   /\ locals.reference_pages = SubSeq(clean_pages, k + 1, Len(clean_pages))

\* the page numbers of a chapter
PageNumbers(c) == { c.pages[j].page_no : j \in 1..Len(c.pages) }

\* C14: every chapter but the final one ends one page before the start index
\* (detected or estimated) of the next chapter, the final chapter ends at the
\* last content page, and no content page is in two emitted chapters.
C14_DisjointChapters ==
    (spc = "built" /\ results[1] # <<>>) =>
        LET n == Len(locals.content_pages)
            m == Len(chapter_info)
            range(i) == ChapterRange(i, n, m, locals.boundaries)
            chs == Emitted(results[1][1])
        IN /\ \A i \in 0..m - 2 :
                 range(i).actual_end = range(i + 1).actual_start - 1
           /\ range(m - 1).actual_end = n - 1
           /\ \A a, b \in 1..Len(chs) :
                 a # b => PageNumbers(chs[a]) \cap PageNumbers(chs[b]) = {}

----------------------------------------------------------------------------
(* Properties of the structures process_single_book writes *)

\* the chapters of a chapter book, the sections of any other
SectionsOf(r) == IF r.has_chapters THEN r.chapters ELSE r.sections

\* a text as the string it is: its lines' names with "\n" between them
RECURSIVE Flat(_)
Flat(ls) ==
    IF ls = <<>> THEN <<>>
    ELSE (IF ls[1].len = 0 THEN <<>> ELSE <<ls[1].id>>)
         \o (IF Len(ls) = 1 THEN <<>> ELSE <<"\n">> \o Flat(Tail(ls)))

\* the pages' texts in order with "\n\n" between them
RECURSIVE BlankJoined(_)
BlankJoined(pages) ==
    IF pages = <<>> THEN <<>>
    ELSE Flat(pages[1].text)
         \o (IF Len(pages) = 1 THEN <<>> ELSE <<"\n", "\n">> \o BlankJoined(Tail(pages)))

\* C11: every chapter or section written by either builder has
\* start_page <= end_page, its pages are a contiguous run of the content
\* pages in ascending page number, total_pages is their count, and full_text
\* is the pages' texts in order joined by a blank line.
C11_SectionShape ==
    bpc = "saved" =>
        \A k \in 1..Len(SectionsOf(saved[1])) :
            LET c == SectionsOf(saved[1])[k]
                content == blocals.content_pages
                n == Len(c.pages)
            IN /\ n >= 1
               /\ c.start_page <= c.end_page
               /\ c.start_page = c.pages[1].page_no
               /\ c.end_page = c.pages[n].page_no
               /\ c.total_pages = n
               /\ \A j \in 1..n - 1 : c.pages[j].page_no < c.pages[j + 1].page_no
               /\ \E a \in 1..Len(content) :
                     /\ a + n - 1 <= Len(content)
                     /\ \A j \in 1..n : c.pages[j].page_no = content[a + j - 1].page_no
               /\ Flat(c.full_text) = BlankJoined(c.pages)

C11_Witness ==
    /\ bpc = "saved"
    /\ ~UsesChapters(book_chapters)
    /\ Len(saved[1].sections) >= 2
    /\ saved[1].sections[2].start_page < saved[1].sections[2].end_page
    /\ Len(blocals.content_pages) < Len(book.pages)

HeaderCleaned(pages) ==
    [k \in 1..Len(pages) |-> [pages[k] EXCEPT !.text = remove_all_page_headers(@)]]

\* C24: in both builders every later stage reads header-cleaned text of the
\* pages that survive the noise filter: the reference section is detected,
\* and the chapter boundaries are detected, on the header-cleaned pages.
C24_StagesReadCleanedText ==
    bpc = "saved" =>
        /\ blocals.ref_start_idx = find_reference_start(HeaderCleaned(blocals.clean_pages))
        /\ UsesChapters(book_chapters) =>
              blocals.boundaries
                  = detect_chapter_boundaries(
                        HeaderCleaned(blocals.content_pages),
                        [k \in 1..Len(book_chapters) |-> book_chapters[k].title])

----------------------------------------------------------------------------
(* Properties of the batch drivers *)

\* C16: whatever books raise, the driver attempts every book of the list
\* exactly once in list order and runs to completion: the books attempted
\* so far are the first ones of the list in order, the driver never stops
\* before the end of the list, and when it returns every book was attempted.
C16_EveryBookAttempted ==
    /\ attempts = [k \in 1..bidx |-> k]
    /\ dpc \in {"run", "done"}
    /\ dpc = "run" => ENABLED NextBatch
    /\ dpc = "done" => bidx = Len(books)

C16_Witness ==
    /\ dpc = "done"
    /\ Len(books) = 3
    /\ books[1] = "raises" /\ books[2] = "raises" /\ books[3] = "result"
    /\ attempts = <<1, 2, 3>>

----------------------------------------------------------------------------
(* Properties of the chunks chunking_builder.process_single_book writes *)

\* C17: in the document written for one book the chunk_index values are
\* unique and increasing over all chunks, those of every chapter or section
\* and of the references section.
C17_BuilderChunkIndex ==
    cpc = "saved" =>
        LET cs == coutput[1].chunks
        IN \A a, b \in 1..Len(cs) :
              a < b => cs[a].metadata.chunk_index < cs[b].metadata.chunk_index

----------------------------------------------------------------------------
(* Properties of the overlap chunk_text carries over a flush *)

\* seq ends with suffix
IsSuffix(suffix, seq) ==
    /\ Len(suffix) <= Len(seq)
    /\ SubSeq(seq, Len(seq) - Len(suffix) + 1, Len(seq)) = suffix

\* C21: at every flush of the sentence packing of chunk_text the sentences
\* carried forward as overlap are a suffix, in the original order, of the
\* flushed buffer, their summed token estimate is at most chunk_overlap, and
\* nothing is carried when the last flushed sentence alone exceeds
\* chunk_overlap.
C21_OverlapIsBoundedSuffix ==
    \A f \in 1..Len(flushes) :
        flushes[f].kind = "sentence" =>
            LET flushed == flushes[f].flushed
                carried == flushes[f].carried
            IN /\ IsSuffix(carried, flushed)
               /\ SumTokens(carried) <= chunk_overlap
               /\ estimate_tokens(flushed[Len(flushed)]) > chunk_overlap
                     => carried = <<>>

\* a flush that carried two sentences and left the one before them behind
C21_Witness ==
    /\ pc = "packed"
    /\ \E f \in 1..Len(flushes) :
          /\ flushes[f].kind = "sentence"
          /\ Len(flushes[f].carried) = 2
          /\ Len(flushes[f].flushed) >= 3

----------------------------------------------------------------------------
(* Properties of strip_all_references *)

\* the text has a line that starts a reference section by its heading
HasReferenceHeading(lines) == \E k \in 1..Len(lines) : lines[k].refhead

\* the 0-based indices at which a run of three citation-shaped lines starts
CitationRuns(lines) ==
    { i \in 0..Len(lines) - 3 :
        lines[i + 1].refind /\ lines[i + 2].refind /\ lines[i + 3].refind }

\* the lowest of a non-empty set of indices
Lowest(S) == CHOOSE i \in S : \A j \in S : i <= j

\* C23: when no heading line matches and the text has a run of three
\* consecutive citation-shaped lines, the reference section starts where the
\* first such run starts (two lines before the line at which the run is
\* found) and the text returned is exactly the lines before that start.
C23_StripsFromFirstRun ==
    (rpc = "once" /\ ~HasReferenceHeading(rtext) /\ CitationRuns(rtext) # {}) =>
        rstripped = StripText(SubSeq(rtext, 1, Lowest(CitationRuns(rtext))))

\* C30: strip_all_references is idempotent: applied to the text it returned
\* it returns that text unchanged.
C30_StripIdempotent == rpc = "twice" => rrestripped = rstripped

----------------------------------------------------------------------------
(* Properties of calculate_noise_score *)

\* the score the noise filter is described to give, as a fraction: the
\* lines that match a noise pattern less half the lines that match a content
\* indicator, each line counted once, over the non-blank lines, with 0.3
\* added for a page under 200 characters, clamped to [0, 1]
LineRatioScore(page_text) ==
    LET lines == NonBlankLines(StripText(page_text))
        total_lines == Len(lines)
        noise_lines == Cardinality({k \in 1..total_lines : lines[k].noise > 0})
        content_lines == Cardinality({k \in 1..total_lines : lines[k].content > 0})
        den == 10 * total_lines
        num == 10 * noise_lines
                 + (IF TextLen(StripText(page_text)) < 200 THEN 3 * total_lines ELSE 0)
                 - 5 * content_lines
    IN [num |-> IF num < 0 THEN 0 ELSE IF num > den THEN den ELSE num, den |-> den]

\* C25: for a page with at least one non-blank line calculate_noise_score
\* returns noise_line_ratio - 0.5 * content_line_ratio, plus 0.3 when the page
\* is under 200 characters, clamped to [0, 1], where a line that matches
\* several patterns is counted once.
C25_LineRatioScore ==
    (npc = "scored" /\ NonBlankLines(ntext) # <<>>) =>
        noise_score.num * LineRatioScore(ntext).den
            = LineRatioScore(ntext).num * noise_score.den

----------------------------------------------------------------------------
(* Properties of detect_chapter_boundaries *)

\* the 0-based indices of the pages on which chapter title t is found: one of
\* the first 15 non-blank lines of the header-cleaned text covers at least
\* 60% of the title's keywords
TitlePages(pages, t) ==
    { idx \in 0..Len(pages) - 1 :
        LET lines == FirstLines(NonBlankLines(remove_all_page_headers(pages[idx + 1].text)), 15)
        IN /\ t.keywords # {}
           /\ \E k \in 1..Len(lines) :
                 10 * Cardinality(t.keywords \cap lines[k].words)
                     >= 6 * Cardinality(t.keywords) }

\* C26: detect_chapter_boundaries maps every chapter i to the lowest index
\* of a page on which its title is found, and a chapter whose title is found
\* on no page, or has no keyword, is absent from the result.
C26_LowestMatchingPage ==
    spc = "built" =>
        \A i \in 0..Len(chapter_info) - 1 :
            LET hits == TitlePages(locals.content_pages, chapter_info[i + 1].title)
            IN IF hits = {} THEN i \notin DOMAIN locals.boundaries
               ELSE /\ i \in DOMAIN locals.boundaries
                    /\ locals.boundaries[i] = Lowest(hits)

\* a book in which a chapter title is found on two pages, the first of them
\* not the first page, and another chapter on none
C26_Witness ==
    /\ spc = "built"
    /\ \E i \in 0..Len(chapter_info) - 1 :
          /\ Cardinality(TitlePages(locals.content_pages, chapter_info[i + 1].title)) >= 2
          /\ i \in DOMAIN locals.boundaries
          /\ locals.boundaries[i] >= 1
    /\ \E i \in 0..Len(chapter_info) - 1 : i \notin DOMAIN locals.boundaries

----------------------------------------------------------------------------
(* Properties of remove_noise inside chunk_text *)

\* the string has a blank line: it starts or ends with "\n" or has "\n\n"
HasBlankLine(s) ==
    s # <<>> /\ (\/ s[1] = Newline
                 \/ s[Len(s)] = Newline
                 \/ \E i \in 1..Len(s) - 1 : s[i] = Newline /\ s[i + 1] = Newline)

\* the chunks and flushes of sentence packing applied to the whole string
WholeTextPacked(s, t) ==
    LET st == PackSentences(split_sentences(s, t), 1, PackState(<<>>, <<>>, 0, <<>>))
    IN [chunks |-> IF st.current # <<>> THEN Append(st.chunks, Join(st.current, Space))
                   ELSE st.chunks,
        flushes |-> st.flushes]

\* C28: the text remove_noise returns has no blank line, so split_by_paragraph
\* gives at most one paragraph; the packing of chunk_text appends that
\* paragraph whole only when the noise-removed text is within chunk_size, and
\* otherwise packs the sentences of the whole text.
C28_OneParagraph ==
    pc # "start" =>
        /\ ~HasBlankLine(clean)
        /\ Len(split_by_paragraph(clean)) <= 1
        /\ pc = "packed" =>
              IF estimate_tokens(clean) <= chunk_size
              THEN chunks = <<clean>> /\ flushes = <<>>
              ELSE /\ chunks = WholeTextPacked(clean, text).chunks
                   /\ flushes = WholeTextPacked(clean, text).flushes

\* a text with a blank line between two sentences, over chunk_size without
\* it, packed into two chunks
C28_Witness ==
    /\ pc = "packed"
    /\ \E i \in 2..Len(text) - 1 : text[i] = BlankLine
    /\ estimate_tokens(clean) > chunk_size
    /\ Len(chunks) >= 2

----------------------------------------------------------------------------
(* Properties of the recursion of auto_split_oversized *)

\* the number of sentences split_sentences finds in a chunk
SentenceCount(chunk) == Len(split_sentences(chunk, alines))

\* the calls return what the function returns
SplitResultAgrees ==
    astack = <<>> => aresult = auto_split_oversized(achunk, alines)

RECURSIVE PendingWork(_)
\* twice the characters of the chunks of the calls not yet returned, plus
\* the number of those calls
PendingWork(stack) ==
    IF stack = <<>> THEN 0
    ELSE 2 * StrLen(Head(stack).chunk) + 1 + PendingWork(Tail(stack))

\* every step of the recursion leaves less to do, so every call returns
SplitWorkDecreases == [][PendingWork(astack') < PendingWork(astack)]_vars

====
